---- MODULE Spec2Model ----
(***************************************************************************)
(* Model of the workspace view-hierarchy manager (flowy-folder,            *)
(* FolderManager in manager.rs).                                           *)
(*                                                                         *)
(* The folder is the collaboratively shared document the manager wraps:    *)
(* a table of view nodes, one ordered child list per parent, and one       *)
(* Trash / Favorite / Recent / Private section per user.  Every manager    *)
(* handler is written as an operator from a folder value to the folder     *)
(* value it leaves behind plus its result and the notifications it sends,  *)
(* so the same definition serves the sequential specification (one         *)
(* handler per step) and the concurrent one (one lock section per step).   *)
(*                                                                         *)
(* Modelling assumptions: the caller is not a Guest (get_view_pb's shared  *)
(* page lookup is skipped); user_id(), workspace_id() and Uuid parsing     *)
(* succeed; a handler is registered for every layout used.                 *)
(***************************************************************************)
EXTENDS Integers, Sequences, FiniteSets, TLC

\* ------------------------------------------------------------------ bounds
\* Number of handler calls in one behaviour of the sequential specification.
MaxOps == 3

\* ------------------------------------------------------------- identifiers
\* The workspace node and the views under it.
W == "W"
Views == {"a", "b", "c"}
IDs == Views \cup {W}
\* The caller and one other member of the workspace.
Me == "me"
Other == "other"
Users == {Me, Other}

\* the None of Folder::get_view
NoView == [absent |-> TRUE]
NoParent == "none"
None == "None"

\* ------------------------------------------------------------ sequences
Range(s) == {s[i] : i \in 1..Len(s)}

\* s without every occurrence of an element of S
Without(s, S) == SelectSeq(s, LAMBDA x : x \notin S)

\* 0-based position of the first x in s (Iterator::position); NotFound stands
\* for the None returned when x does not occur
NotFound == 0 - 1

Position(s, x) ==
  IF x \in Range(s) THEN (CHOOSE i \in 1..Len(s) : s[i] = x /\ \A j \in 1..(i - 1) : s[j] # x) - 1
  ELSE NotFound

\* s with x inserted so that it ends at 0-based index i (clamped to the end)
InsertAt(s, i, x) ==
  LET k == IF i > Len(s) THEN Len(s) ELSE i
  IN SubSeq(s, 1, k) \o <<x>> \o SubSeq(s, k + 1, Len(s))

\* s with the element at 0-based index i removed
RemoveAt(s, i) == SubSeq(s, 1, i) \o SubSeq(s, i + 2, Len(s))

\* ------------------------------------------------- the folder (collab_folder)
\* Folder::get_view: the node, with is_favorite read from the user's section.
Exists(F, id) == id \in DOMAIN F.views /\ F.views[id] # NoView

IsFavorite(F, u, id) == id \in F.favorite[u]

IsLocked(F, id) == Exists(F, id) /\ F.views[id].locked

\* Folder::get_views_belong_to: the existing children of an existing parent,
\* in storage order.
GetViewsBelongTo(F, pid) ==
  IF Exists(F, pid) THEN SelectSeq(F.children[pid], LAMBDA c : Exists(F, c)) ELSE <<>>

\* Folder::get_view_recursively: the view and everything below it along the
\* child lists, each id visited once.
RECURSIVE Descend(_, _, _)
Descend(F, stack, visited) ==
  IF stack = <<>> THEN visited
  ELSE LET cur == stack[Len(stack)]
           rest == SubSeq(stack, 1, Len(stack) - 1)
       IN IF cur \in visited \/ ~Exists(F, cur) THEN Descend(F, rest, visited)
          ELSE Descend(F, rest \o F.children[cur], visited \cup {cur})

GetViewRecursively(F, id) == Descend(F, <<id>>, {})

\* Folder::get_my_trash_info / get_all_trash_sections
GetMyTrashInfo(F, u) == F.trash[u]

GetAllTrashSections(F) == UNION {Range(F.trash[u]) : u \in Users}

\* Folder::get_my_private_sections / get_all_private_sections
GetMyPrivateSections(F, u) == F.private[u]

GetAllPrivateSections(F) == UNION {F.private[u] : u \in Users}

\* an insertion that puts the id in place of the section's items
AddTrashViewIdsReplacing(F, u, id) == [F EXCEPT !.trash[u] = <<id>>]

\* Folder::add_trash_view_ids appends one section item per id.
AddTrashViewIds(F, u, id) == [F EXCEPT !.trash[u] = Append(@, id)]

\* Folder::delete_trash_view_ids removes the user's items for the id.
DeleteTrashViewIds(F, u, id) == [F EXCEPT !.trash[u] = Without(@, {id})]

\* a removal that empties the trash section of every user
RemoveAllTrashSections(F, u) == [F EXCEPT !.trash = [x \in Users |-> <<>>]]

\* Folder::remove_all_my_trash_sections
RemoveAllMyTrashSections(F, u) == [F EXCEPT !.trash[u] = <<>>]

\* Folder::add_favorite_view_ids / delete_favorite_view_ids
AddFavoriteViewIds(F, u, S) == [F EXCEPT !.favorite[u] = @ \cup S]

DeleteFavoriteViewIds(F, u, S) == [F EXCEPT !.favorite[u] = @ \ S]

\* Folder::add_private_view_ids / delete_private_view_ids
AddPrivateViewIds(F, u, S) == [F EXCEPT !.private[u] = @ \cup S]

DeletePrivateViewIds(F, u, S) == [F EXCEPT !.private[u] = @ \ S]

\* a delete that takes the descendants with the node
DeleteViewsCascade(F, id) ==
  [F EXCEPT !.views = [v \in DOMAIN @ |->
                         IF v \in {id} \cup GetViewRecursively(F, id) THEN NoView ELSE @[v]]]

\* Folder::delete_views removes the node of each id given and nothing else.
DeleteViews(F, id) == IF id \in DOMAIN F.views THEN [F EXCEPT !.views[id] = NoView] ELSE F

\* Folder::move_view: within the parent of the view, take the child at
\* storage index from and put it back at storage index to.
FolderMoveView(F, id, from, to) ==
  IF ~Exists(F, id) THEN F
  ELSE LET pid == F.views[id].parent
       IN IF pid \notin DOMAIN F.children \/ from >= Len(F.children[pid]) THEN F
          ELSE LET moved == F.children[pid][from + 1]
               IN [F EXCEPT !.children[pid] = InsertAt(RemoveAt(@, from), to, moved)]

\* a reparenting that puts the view last in the new parent's list
FolderMoveNestedViewLast(F, id, newParent, prev) ==
  IF ~Exists(F, id) \/ ~Exists(F, newParent) THEN F
  ELSE LET old == F.views[id].parent
           F1 == IF old \in DOMAIN F.children THEN [F EXCEPT !.children[old] = Without(@, {id})] ELSE F
           F2 == [F1 EXCEPT !.children[newParent] = Append(@, id)]
       IN [F2 EXCEPT !.views[id].parent = newParent]

\* Folder::move_nested_view: take the view out of its parent's child list,
\* put it after prev in the new parent's list (first when prev is None), and
\* set its parent id.  Nothing happens when the view or the new parent does
\* not exist.
FolderMoveNestedView(F, id, newParent, prev) ==
  IF ~Exists(F, id) \/ ~Exists(F, newParent) THEN F
  ELSE LET old == F.views[id].parent
           F1 == IF old \in DOMAIN F.children THEN [F EXCEPT !.children[old] = Without(@, {id})] ELSE F
           at == IF prev = None THEN 0 ELSE Position(F1.children[newParent], prev) + 1
           F2 == [F1 EXCEPT !.children[newParent] = InsertAt(@, at, id)]
       IN [F2 EXCEPT !.views[id].parent = newParent]

\* ------------------------------------------------- results and notifications
Ok == "Ok"
ViewLocked == "ViewLocked"
RecordNotFound == "RecordNotFound"
\* ErrorCode::Internal "Can't move the view to trash, it is already in trash"
AlreadyTrashed == "AlreadyTrashed"
\* an error returned by a layout handler
HandlerError == "HandlerError"

Note(kind, ids) == [kind |-> kind, ids |-> ids]

\* What a handler leaves behind: the folder, the result returned to the
\* caller, the notifications sent and the layout-handler calls made.
Outcome(F, res, notes, calls) == [f |-> F, res |-> res, notes |-> notes, calls |-> calls]

\* ------------------------------------------------------- visibility filter
\* the trash ids without what lies below them
GetAllTrashIdsDirect(F) == GetAllTrashSections(F)

\* FolderManager::get_all_trash_ids: every user's trash ids and all that lies
\* below them.
GetAllTrashIds(F) ==
  LET trash_ids == GetAllTrashSections(F)
  IN trash_ids \cup UNION {GetViewRecursively(F, t) : t \in trash_ids}

\* FolderManager::get_other_private_view_ids
GetOtherPrivateViewIds(F, u) ==
  {id \in GetAllPrivateSections(F) : id \notin GetMyPrivateSections(F, u)}

\* FolderManager::get_view_ids_should_be_filtered
GetViewIdsShouldBeFiltered(F, u) == GetAllTrashIds(F) \cup GetOtherPrivateViewIds(F, u)

\* ------------------------------------------------------------------ reads
\* view_pb_without_child_views / view_pb_with_child_views: the fields of the
\* node, the caller's favorite flag and the ids of the children listed.
ViewPb(F, u, id, child_views) ==
  [id |-> id, view |-> F.views[id], is_favorite |-> IsFavorite(F, u, id),
   child_views |-> child_views]

NoViewPb == [id |-> None, view |-> NoView, is_favorite |-> FALSE, child_views |-> <<>>]

\* FolderManager::get_view_pb
GetViewPb(F, u, id) ==
  LET filtered == GetViewIdsShouldBeFiltered(F, u)
  IN IF id \in filtered THEN [res |-> RecordNotFound, pb |-> NoViewPb]
     ELSE IF ~Exists(F, id) THEN [res |-> RecordNotFound, pb |-> NoViewPb]
     ELSE [res |-> Ok,
           pb |-> ViewPb(F, u, id, SelectSeq(GetViewsBelongTo(F, id), LAMBDA c : c \notin filtered))]

\* FolderManager::get_view_pbs_without_children
GetViewPbsWithoutChildren(F, u, view_ids) ==
  LET filtered == GetViewIdsShouldBeFiltered(F, u)
  IN SelectSeq(view_ids, LAMBDA id : id \notin filtered /\ Exists(F, id))

\* FolderManager::get_all_views_pb (as the set of ids returned)
GetAllViewsPb(F, u) ==
  LET filtered == GetViewIdsShouldBeFiltered(F, u)
  IN {id \in DOMAIN F.views : Exists(F, id) /\ id \notin filtered}

\* FolderManager::get_sections for Favorite (get_all_favorites) and Recent
\* (get_my_recent_sections)
GetAllFavorites(F, u) == F.favorite[u] \ GetViewIdsShouldBeFiltered(F, u)

GetMyRecentSections(F, u) == F.recent[u] \ GetViewIdsShouldBeFiltered(F, u)

\* get_workspace_public_view_pbs: the top-level views outside every trash and
\* private section, each with its children outside the trash sections.
GetWorkspacePublicViewPbs(F, u) ==
  LET trash_ids == GetAllTrashSections(F)
      private_view_ids == GetAllPrivateSections(F)
      views == SelectSeq(GetViewsBelongTo(F, W),
                         LAMBDA v : v \notin trash_ids /\ v \notin private_view_ids)
  IN [i \in 1..Len(views) |->
        ViewPb(F, u, views[i],
               SelectSeq(GetViewsBelongTo(F, views[i]), LAMBDA c : c \notin trash_ids))]

\* get_workspace_private_view_pbs: the same for the caller's private views.
GetWorkspacePrivateViewPbs(F, u) ==
  LET trash_ids == GetAllTrashSections(F)
      private_view_ids == GetMyPrivateSections(F, u)
      views == SelectSeq(GetViewsBelongTo(F, W),
                         LAMBDA v : v \notin trash_ids /\ v \in private_view_ids)
  IN [i \in 1..Len(views) |->
        ViewPb(F, u, views[i],
               SelectSeq(GetViewsBelongTo(F, views[i]), LAMBDA c : c \notin trash_ids))]

\* FolderManager::get_view_relation: (is_workspace, parent id, the parent's
\* stored child ids); found is FALSE for the None of a view that does not exist.
GetViewRelation(F, id) ==
  IF ~Exists(F, id)
  THEN [found |-> FALSE, is_workspace |-> FALSE, parent |-> None, child_views |-> <<>>]
  ELSE LET pid == F.views[id].parent
       IN IF Exists(F, pid)
          THEN [found |-> TRUE, is_workspace |-> FALSE, parent |-> pid,
                child_views |-> F.children[pid]]
          ELSE [found |-> TRUE, is_workspace |-> TRUE, parent |-> W,
                child_views |-> F.children[W]]

\* ------------------------------------------------------- trash lifecycle
\* FolderManager::unfavorite_view_and_decendants: the view and the children
\* get_views_belong_to returns for it, those that are favorites.
FavoriteDescendantViews(F, u, id) ==
  SelectSeq(<<id>> \o GetViewsBelongTo(F, id), LAMBDA v : IsFavorite(F, u, v))

UnfavoriteViewAndDecendants(F, u, id) ==
  LET favs == FavoriteDescendantViews(F, u, id)
  IN IF favs # <<>>
     THEN [f |-> DeleteFavoriteViewIds(F, u, Range(favs)),
           notes |-> <<Note("DidUnfavoriteView", Range(favs))>>]
     ELSE [f |-> F, notes |-> <<>>]

\* FolderManager::move_view_to_trash, the section under the write lock: the
\* already-in-trash check against the caller's trash, the locked check, the
\* unfavorite cascade and the trash insertion.
TrashCheck(F, u, id) == id \in Range(GetMyTrashInfo(F, u))

\* what follows the check: nothing for a view that does not exist, ViewLocked
\* for a locked one, else the cascade, the insertion and the notifications
TrashInsert(F, u, id) ==
  IF ~Exists(F, id) THEN Outcome(F, Ok, <<>>, <<>>)
  ELSE IF F.views[id].locked THEN Outcome(F, ViewLocked, <<>>, <<>>)
  ELSE LET un == UnfavoriteViewAndDecendants(F, u, id)
       IN Outcome(AddTrashViewIds(un.f, u, id), Ok,
                  un.notes \o <<Note("DidMoveViewToTrash", {id}),
                                Note("DidUpdateChildViews", {id})>>,
                  <<>>)

MoveViewToTrash(F, u, id) ==
  IF TrashCheck(F, u, id) THEN Outcome(F, AlreadyTrashed, <<>>, <<>>)
  ELSE TrashInsert(F, u, id)

\* a restore that reports the trash as restore_all_trash does
RestoreTrashNotifying(F, u, id) ==
  Outcome(DeleteTrashViewIds(F, u, id), Ok, <<Note("DidUpdateTrash", {})>>, <<>>)

\* FolderManager::restore_trash
RestoreTrash(F, u, id) == Outcome(DeleteTrashViewIds(F, u, id), Ok, <<>>, <<>>)

\* FolderManager::restore_all_trash
RestoreAllTrash(F, u) ==
  Outcome(RemoveAllMyTrashSections(F, u), Ok, <<Note("DidUpdateTrash", {})>>, <<>>)

\* FolderManager::delete_trash, the section under the write lock.
DeleteTrashSection(F, u, id) == DeleteViews(DeleteTrashViewIds(F, u, id), id)

\* FolderManager::delete_trash: the section, then the layout handler's
\* delete_view for the view read at the start (hok: the handler succeeds).
DeleteTrash(F, u, id, hok) ==
  IF Exists(F, id)
  THEN Outcome(DeleteTrashSection(F, u, id), IF hok THEN Ok ELSE HandlerError, <<>>,
               <<[call |-> "delete_view", id |-> id]>>)
  ELSE Outcome(DeleteTrashSection(F, u, id), Ok, <<>>, <<>>)

\* FolderManager::toggle_favorites with send_toggle_favorite_notification
ToggleFavorites(F, u, id) ==
  LET F1 == IF ~Exists(F, id) THEN F
            ELSE IF IsFavorite(F, u, id) THEN DeleteFavoriteViewIds(F, u, {id})
            ELSE AddFavoriteViewIds(F, u, {id})
      pb == GetViewPb(F1, u, id)
  IN Outcome(F1, Ok,
             IF pb.res = Ok
             THEN <<Note(IF pb.pb.is_favorite THEN "DidFavoriteView" ELSE "DidUnfavoriteView", {id}),
                    Note("DidUpdateView", {id})>>
             ELSE <<>>,
             <<>>)

\* FolderManager::add_recent_views with send_update_recent_views_notification
AddRecentViews(F, u, view_ids) ==
  Outcome([F EXCEPT !.recent[u] = @ \cup view_ids], Ok,
          <<Note("DidUpdateRecentViews", {})>>, <<>>)

\* FolderManager::set_views_visibility
SetViewsVisibility(F, u, view_ids, is_public) ==
  Outcome(IF is_public THEN DeletePrivateViewIds(F, u, view_ids)
          ELSE AddPrivateViewIds(F, u, view_ids), Ok, <<>>, <<>>)

\* ------------------------------------------------------------ update_view
\* ViewUpdate: the fields present in the patch replace the node's; the
\* favorite flag goes to the caller's Favorite section.  The thumbnail of
\* UpdateViewParams is handed to no setter of the ViewUpdate.
NoPatch == [name |-> None, desc |-> None, thumbnail |-> None, layout |-> None,
            is_favorite |-> None, extra |-> None, icon |-> None, locked |-> None]

ApplyPatch(F, u, id, patch) ==
  LET v == F.views[id]
      v1 == [v EXCEPT !.name = IF patch.name = None THEN @ ELSE patch.name,
                      !.desc = IF patch.desc = None THEN @ ELSE patch.desc,
                      !.layout = IF patch.layout = None THEN @ ELSE patch.layout,
                      !.extra = IF patch.extra = None THEN @ ELSE patch.extra,
                      !.icon = IF patch.icon = None THEN @ ELSE patch.icon,
                      !.locked = IF patch.locked = None THEN @ ELSE patch.locked = "true"]
      F1 == [F EXCEPT !.views[id] = v1]
  IN IF patch.is_favorite = None THEN F1
     ELSE IF patch.is_favorite = "true" THEN AddFavoriteViewIds(F1, u, {id})
     ELSE DeleteFavoriteViewIds(F1, u, {id})

\* FolderManager::update_view, the section under the write lock: the locked
\* check and Folder::update_view.  rejected: ViewLocked was returned.
UpdateViewSection(F, u, id, check_locked, patch) ==
  IF check_locked /\ IsLocked(F, id) THEN [f |-> F, rejected |-> TRUE]
  ELSE [f |-> IF Exists(F, id) THEN ApplyPatch(F, u, id, patch) ELSE F, rejected |-> FALSE]

\* FolderManager::update_view: the section, then did_update_view of the
\* layout handler (hok: it succeeds), then the notifications when the view
\* can be read.
UpdateView(F, u, id, check_locked, patch, hok) ==
  LET sec == UpdateViewSection(F, u, id, check_locked, patch)
      calls == IF Exists(F, id) THEN <<[call |-> "did_update_view", id |-> id]>> ELSE <<>>
  IN IF sec.rejected THEN Outcome(F, ViewLocked, <<>>, <<>>)
     ELSE IF calls # <<>> /\ ~hok THEN Outcome(sec.f, HandlerError, <<>>, calls)
     ELSE Outcome(sec.f, Ok,
                  IF GetViewPb(sec.f, u, id).res = Ok
                  THEN <<Note("DidUpdateView", {id}), Note("DidUpdateWorkspace", {})>>
                  ELSE <<>>,
                  calls)

\* FolderManager::update_view_with_params (here: a rename)
UpdateViewWithParams(F, u, id, patch, hok) == UpdateView(F, u, id, TRUE, patch, hok)

\* FolderManager::update_view_icon_with_params
UpdateViewIconWithParams(F, u, id, icon, hok) ==
  UpdateView(F, u, id, TRUE, [NoPatch EXCEPT !.icon = icon], hok)

\* FolderManager::lock_view / unlock_view
LockView(F, u, id, hok) == UpdateView(F, u, id, FALSE, [NoPatch EXCEPT !.locked = "true"], hok)

UnlockView(F, u, id, hok) == UpdateView(F, u, id, FALSE, [NoPatch EXCEPT !.locked = "false"], hok)

\* ------------------------------------------------------------------ moves
\* move_view without its locked check
MoveViewCheckNoLock(F, u, id) == GetViewPb(F, u, id).res

\* FolderManager::move_view, the first read: get_view_pb and the locked check
\* made on the view it returned.
MoveViewCheck(F, u, id) ==
  LET got == GetViewPb(F, u, id)
  IN IF got.res # Ok THEN got.res
     ELSE IF got.pb.view.locked THEN ViewLocked
     ELSE Ok

\* FolderManager::move_view, the display list: the workspace's public views
\* or the children get_view_pb returns for the parent.
DisplayViews(F, u, rel) ==
  IF rel.is_workspace
  THEN IF Exists(F, W)
       THEN [res |-> Ok,
             ids |-> LET pbs == GetWorkspacePublicViewPbs(F, u)
                     IN [i \in 1..Len(pbs) |-> pbs[i].id]]
       ELSE [res |-> RecordNotFound, ids |-> <<>>]
  ELSE LET got == GetViewPb(F, u, rel.parent)
       IN [res |-> got.res, ids |-> got.pb.child_views]

\* the display index taken for a storage index
MoveIndicesUntranslated(rel, display, id, to) ==
  IF Len(display) > to
  THEN [found |-> Position(rel.child_views, id) # NotFound /\ to < Len(rel.child_views),
        from |-> Position(rel.child_views, id), to |-> to]
  ELSE [found |-> FALSE, from |-> NotFound, to |-> NotFound]

\* a translation that takes an index past the end of the display list for
\* the last view shown
MoveIndicesClamped(rel, display, id, to) ==
  LET at == IF Len(display) > to THEN to + 1 ELSE Len(display)
  IN IF at >= 1
     THEN LET from_index == Position(rel.child_views, id)
              to_index == Position(rel.child_views, display[at])
          IN [found |-> from_index # NotFound /\ to_index # NotFound,
              from |-> from_index, to |-> to_index]
     ELSE [found |-> FALSE, from |-> NotFound, to |-> NotFound]

\* FolderManager::move_view, the translation of the display index to into
\* the storage indices handed to Folder::move_view (found: both exist).
MoveIndices(rel, display, id, to) ==
  IF Len(display) > to
  THEN LET from_index == Position(rel.child_views, id)
           to_index == Position(rel.child_views, display[to + 1])
       IN [found |-> from_index # NotFound /\ to_index # NotFound,
           from |-> from_index, to |-> to_index]
  ELSE [found |-> FALSE, from |-> NotFound, to |-> NotFound]

\* FolderManager::move_view, the section under the write lock.
MoveViewWrite(F, id, ix) == FolderMoveView(F, id, ix.from, ix.to)

\* FolderManager::move_view as one call
MoveView(F, u, id, from, to) ==
  LET chk == MoveViewCheck(F, u, id)
      rel == GetViewRelation(F, id)
      disp == DisplayViews(F, u, rel)
      ix == MoveIndices(rel, disp.ids, id, to)
  IN IF chk # Ok THEN Outcome(F, chk, <<>>, <<>>)
     ELSE IF ~rel.found THEN Outcome(F, Ok, <<>>, <<>>)
     ELSE IF disp.res # Ok THEN Outcome(F, disp.res, <<>>, <<>>)
     ELSE IF ~ix.found THEN Outcome(F, Ok, <<>>, <<>>)
     ELSE Outcome(MoveViewWrite(F, id, ix), Ok, <<Note("DidUpdateChildViews", {rel.parent})>>,
                  <<>>)

\* the reparenting alone, the sections left as they are
MoveNestedViewWriteKeepSection(F, u, id, new_parent, prev, from_section, to_section) ==
  FolderMoveNestedView(F, id, new_parent, prev)

\* FolderManager::move_nested_view, the section under the write lock:
\* Folder::move_nested_view and the change of Private membership.
MoveNestedViewWrite(F, u, id, new_parent, prev, from_section, to_section) ==
  LET F1 == FolderMoveNestedView(F, id, new_parent, prev)
  IN IF from_section # to_section
     THEN IF to_section = "Private" THEN AddPrivateViewIds(F1, u, {id})
          ELSE DeletePrivateViewIds(F1, u, {id})
     ELSE F1

\* FolderManager::move_nested_view as one call
MoveNestedView(F, u, id, new_parent, prev, from_section, to_section) ==
  LET chk == MoveViewCheck(F, u, id)
  IN IF chk # Ok THEN Outcome(F, chk, <<>>, <<>>)
     ELSE Outcome(MoveNestedViewWrite(F, u, id, new_parent, prev, from_section, to_section),
                  Ok, <<Note("DidUpdateChildViews", {new_parent, F.views[id].parent})>>, <<>>)

\* ------------------------------------------------------------------ state
VARIABLES
  folder,   \* the folder behind the manager's handle
  last,     \* the handler call made by the latest step and what it returned
  steps,    \* number of handler calls made so far
  pc,       \* per task: the step of its call it is about to take, 0 when idle
  prog,     \* per task: the call it is making
  loc,      \* per task: what its call has read so far
  rw,       \* the folder's RwLock: the writer and the readers holding a guard
  ret,      \* per task: what its latest finished call returned
  started,  \* number of calls started by the tasks
  before    \* the folder as the latest recorded call found it

vars == <<folder, last, steps, pc, prog, loc, rw, ret, started, before>>

\* the variables of the concurrent tasks
taskVars == <<pc, prog, loc, rw, ret, started>>

\* The tasks that call into the manager at the same time.
Procs == {"p1", "p2"}

NoGuard == "none"
NoProg == [op |-> "none", id |-> None, arg |-> <<>>]
NoLoc == [rel |-> [found |-> FALSE, is_workspace |-> FALSE, parent |-> None,
                   child_views |-> <<>>],
          disp |-> <<>>, had_view |-> FALSE, notes |-> <<>>]

TasksIdle ==
  /\ pc = [p \in Procs |-> 0]
  /\ prog = [p \in Procs |-> NoProg]
  /\ loc = [p \in Procs |-> NoLoc]
  /\ rw = [writer |-> NoGuard, readers |-> {}]
  /\ ret = [p \in Procs |-> "none"]
  /\ started = 0

\* A view as create_view builds it (view_operation.rs), unlocked.
NewView(parent, name) ==
  [parent |-> parent, name |-> name, icon |-> "i0", locked |-> FALSE, layout |-> "Document",
   desc |-> "d0", extra |-> "e0"]

\* The folders a behaviour starts from: a chain W > a > b > c, three views
\* side by side under the workspace, and a mixed tree; no section has a
\* member yet.
ChainChildren == [id \in IDs |-> CASE id = W -> <<"a">> [] id = "a" -> <<"b">>
                                      [] id = "b" -> <<"c">> [] OTHER -> <<>>]

FlatChildren == [id \in IDs |-> IF id = W THEN <<"a", "b", "c">> ELSE <<>>]

MixedChildren == [id \in IDs |-> CASE id = W -> <<"a", "c">> [] id = "a" -> <<"b">>
                                      [] OTHER -> <<>>]

ParentIn(children, id) ==
  IF \E p \in IDs : id \in Range(children[p])
  THEN CHOOSE p \in IDs : id \in Range(children[p])
  ELSE NoParent

FolderOf(children) ==
  [views |-> [id \in IDs |-> NewView(ParentIn(children, id), "n0")],
   children |-> children,
   trash |-> [u \in Users |-> <<>>],
   favorite |-> [u \in Users |-> {}],
   recent |-> [u \in Users |-> {}],
   private |-> [u \in Users |-> {}]]

InitFolders == {FolderOf(ChainChildren), FolderOf(FlatChildren), FolderOf(MixedChildren)}

\* the value of before in the specifications that record no folder
NoFolder == [recorded |-> FALSE]

NoCall == [op |-> "none", u |-> None, id |-> None, arg |-> <<>>, res |-> Ok,
           notes |-> <<>>, calls |-> <<>>]

Init ==
  /\ folder \in InitFolders
  /\ last = NoCall
  /\ steps = 0
  /\ TasksIdle
  /\ before = NoFolder

\* One handler call, run from start to end with nothing in between.
Call(op, u, id, arg, out) ==
  /\ steps < MaxOps
  /\ folder' = out.f
  /\ last' = [op |-> op, u |-> u, id |-> id, arg |-> arg, res |-> out.res,
              notes |-> out.notes, calls |-> out.calls]
  /\ steps' = steps + 1
  /\ UNCHANGED <<taskVars, before>>

\* --------------------------------------------------------------- actions
Trash(u, id) == Call("trash", u, id, <<>>, MoveViewToTrash(folder, u, id))

Restore(u, id) == Call("restore", u, id, <<>>, RestoreTrash(folder, u, id))

RestoreAll(u) == Call("restore_all", u, None, <<>>, RestoreAllTrash(folder, u))

DeletePermanently(u, id, hok) ==
  Call("delete", u, id, <<hok>>, DeleteTrash(folder, u, id, hok))

ToggleFavorite(u, id) == Call("toggle_favorite", u, id, <<>>, ToggleFavorites(folder, u, id))

Lock(u, id, hok) == Call("lock", u, id, <<hok>>, LockView(folder, u, id, hok))

Unlock(u, id, hok) == Call("unlock", u, id, <<hok>>, UnlockView(folder, u, id, hok))

AddRecent(u, id) == Call("add_recent_views", u, id, <<>>, AddRecentViews(folder, u, {id}))

Rename(u, id, name) ==
  Call("rename", u, id, <<name>>,
       UpdateViewWithParams(folder, u, id, [NoPatch EXCEPT !.name = name], TRUE))

ChangeIcon(u, id, icon) ==
  Call("icon", u, id, <<icon>>, UpdateViewIconWithParams(folder, u, id, icon, TRUE))

Move(u, id, to) == Call("move_view", u, id, <<to>>, MoveView(folder, u, id, 0, to))

\* prev is absent or a child of the new parent other than the moved view
PrevChoices(F, id, new_parent) == {None} \cup (Range(F.children[new_parent]) \ {id})

MoveNested(u, id, new_parent, prev, from_section, to_section) ==
  Call("move_nested_view", u, id, <<new_parent, prev, from_section, to_section>>,
       MoveNestedView(folder, u, id, new_parent, prev, from_section, to_section))

SetVisibility(u, id, is_public) ==
  Call("set_views_visibility", u, id, <<is_public>>,
       SetViewsVisibility(folder, u, {id}, is_public))

\* The caller's calls, and the calls of the other member whose effects reach
\* the shared folder.
Next ==
  \/ \E id \in Views : Trash(Me, id)
  \/ \E id \in Views : Restore(Me, id)
  \/ RestoreAll(Me)
  \/ \E id \in Views, hok \in BOOLEAN : DeletePermanently(Me, id, hok)
  \/ \E id \in Views : ToggleFavorite(Me, id)
  \/ \E id \in Views : AddRecent(Me, id)
  \/ \E id \in Views : Lock(Me, id, TRUE)
  \/ \E id \in Views, hok \in BOOLEAN : Unlock(Me, id, hok)
  \/ \E id \in Views : Rename(Me, id, "n1")
  \/ \E id \in Views : ChangeIcon(Me, id, "i1")
  \/ \E id \in Views, to \in 0..2 : Move(Me, id, to)
  \/ \E id \in Views, np \in IDs : \E prev \in PrevChoices(folder, id, np) :
       MoveNested(Me, id, np, prev, None, None)
  \/ \E id \in Views : Trash(Other, id)
  \/ \E id \in Views : SetVisibility(Other, id, FALSE)

Spec == Init /\ [][Next]_vars

\* ======================================================== claims, Spec
\* What the claims speak of.
\* The existing nodes on the parent chain of v, v itself left out.
RECURSIVE AncestorsFrom(_, _, _)
AncestorsFrom(F, id, seen) ==
  IF ~Exists(F, id) \/ id \in seen THEN seen
  ELSE AncestorsFrom(F, F.views[id].parent, seen \cup {id})

AncestorsOf(F, v) == IF Exists(F, v) THEN AncestorsFrom(F, F.views[v].parent, {}) ELSE {}

\* The views that are Trash members of some user or lie under one.
UnderTrash(F) ==
  {v \in Views : Exists(F, v)
                 /\ (v \in GetAllTrashSections(F)
                     \/ AncestorsOf(F, v) \cap GetAllTrashSections(F) # {})}

\* The ids a sequence of view pbs shows: the items and their children.
ShownIn(pbs) ==
  {pbs[i].id : i \in 1..Len(pbs)} \cup UNION {Range(pbs[i].child_views) : i \in 1..Len(pbs)}

\* Every id a non-trash listing returns to user u.
Listed(F, u) ==
  UNION {Range(GetViewPb(F, u, id).pb.child_views) : id \in IDs}
  \cup GetAllViewsPb(F, u)
  \cup Range(GetViewPbsWithoutChildren(F, u, <<"a", "b", "c">>))
  \cup ShownIn(GetWorkspacePublicViewPbs(F, u))
  \cup ShownIn(GetWorkspacePrivateViewPbs(F, u))
  \cup GetAllFavorites(F, u)
  \cup GetMyRecentSections(F, u)

\* The lifecycle state of a view.
Life(F, id) ==
  IF ~Exists(F, id) THEN "Deleted"
  ELSE IF id \in GetAllTrashSections(F) THEN "Trashed"
  ELSE "Active"

LockGuarded == {"move_view", "move_nested_view", "trash", "rename", "icon"}

\* C2 (as stated): every one of move_view, move_nested_view, trash, rename
\* and icon change on a locked view returns ViewLocked and leaves child lists
\* and view fields as they were; unlock_view on it succeeds.
C2_LockedRejectsWithViewLocked ==
  [][/\ (last'.op \in LockGuarded /\ IsLocked(folder, last'.id))
          => (last'.res = ViewLocked /\ folder'.children = folder.children
                                      /\ folder'.views = folder.views)
     /\ (last'.op = "unlock" /\ IsLocked(folder, last'.id) /\ last'.arg[1])
          => (last'.res = Ok /\ ~IsLocked(folder', last'.id))]_vars

\* C2 (amended): every one of these calls on a locked view fails and leaves
\* child lists and view fields as they were.  The error is ViewLocked, except
\* that move_view and move_nested_view return RecordNotFound when the view is
\* hidden from the caller, and trash returns the already-trashed error when
\* the view is in the caller's trash.  unlock_view on a locked view clears
\* the lock and returns Ok when the layout handler's did_update_view does.
C2_LockedRejects ==
  [][/\ (last'.op \in LockGuarded /\ IsLocked(folder, last'.id))
          => /\ folder'.children = folder.children
             /\ folder'.views = folder.views
             /\ last'.res =
                  IF last'.op \in {"move_view", "move_nested_view"}
                     /\ last'.id \in GetViewIdsShouldBeFiltered(folder, last'.u)
                  THEN RecordNotFound
                  ELSE IF last'.op = "trash" /\ last'.id \in Range(folder.trash[last'.u])
                  THEN AlreadyTrashed
                  ELSE ViewLocked
     /\ (last'.op = "unlock" /\ IsLocked(folder, last'.id))
          => /\ ~IsLocked(folder', last'.id)
             /\ last'.res = IF last'.arg[1] THEN Ok ELSE HandlerError]_vars

\* C2 witness: a move of a locked view that the caller can see has just been
\* rejected with ViewLocked.
C2_Witness ==
  /\ last.op \in {"move_view", "move_nested_view"}
  /\ IsLocked(folder, last.id)
  /\ last.id \notin GetViewIdsShouldBeFiltered(folder, last.u)
  /\ last.res = ViewLocked

\* C4: a view that is a Trash member or lies under one cannot be fetched by
\* get_view_pb (RecordNotFound) and is in no result of a non-trash listing,
\* whatever other sections it is a member of.
C4_TrashHidden ==
  LET hidden == UnderTrash(folder)
  IN hidden # {} =>
       \A u \in Users :
         /\ \A v \in hidden : GetViewPb(folder, u, v).res = RecordNotFound
         /\ hidden \cap Listed(folder, u) = {}

\* C4 witness: a view under a trashed ancestor, not itself in Trash, that is
\* a Favorite member of the caller.
C4_Witness ==
  \E v \in UnderTrash(folder) :
    /\ v \notin GetAllTrashSections(folder)
    /\ v \in folder.favorite[Me]

\* C5: no view of another identity's Private section (and not of the
\* caller's own) is returned to the caller by a listing, neither as an item
\* nor as a child of an item.
C5_OtherPrivateHidden ==
  \A v \in GetOtherPrivateViewIds(folder, Me) : v \notin Listed(folder, Me)

\* C6: a successful trash(id) removes from the caller's Favorite section
\* exactly the favorites among id and its descendants at any depth.
C6_TrashUnfavoritesSubtree ==
  [][(last'.op = "trash" /\ last'.res = Ok /\ Exists(folder, last'.id))
       => folder'.favorite[last'.u]
            = folder.favorite[last'.u] \ GetViewRecursively(folder, last'.id)]_vars

\* C7: a view only goes Active -> Trashed by trash, Trashed -> Active by
\* restore or restore_all, and Trashed -> Deleted by delete_permanently.
C7_Lifecycle ==
  [][\A v \in Views :
       LET s == Life(folder, v)
           t == Life(folder', v)
       IN \/ s = t
          \/ s = "Active" /\ t = "Trashed" /\ last'.op = "trash"
          \/ s = "Trashed" /\ t = "Active" /\ last'.op \in {"restore", "restore_all"}
          \/ s = "Trashed" /\ t = "Deleted" /\ last'.op = "delete"]_vars

\* C9: delete_permanently(id) removes the node id alone: every other node,
\* the descendants of id among them, is there afterwards with the same
\* parent id and fields.
C9_DeleteKeepsDescendants ==
  [][last'.op = "delete"
       => \A v \in IDs \ {last'.id} : folder'.views[v] = folder.views[v]]_vars

\* C9 witness: after a delete the deleted node is gone and a child of it is
\* still a node whose parent id names it.
C9_Witness ==
  /\ last.op = "delete"
  /\ ~Exists(folder, last.id)
  /\ \E v \in Views : Exists(folder, v) /\ folder.views[v].parent = last.id

\* C10: restore(id) of a view that is not in the caller's Trash returns Ok,
\* sends nothing and leaves the folder as it was; restoring twice leaves what
\* restoring once leaves.
C10_RestoreNoop ==
  /\ [][(last'.op = "restore" /\ last'.id \notin Range(folder.trash[last'.u]))
          => (last'.res = Ok /\ last'.notes = <<>> /\ folder' = folder)]_vars
  /\ [](\A v \in Views :
          LET once == RestoreTrash(folder, Me, v)
              twice == RestoreTrash(once.f, Me, v)
          IN twice.f = once.f /\ twice.res = Ok /\ twice.notes = <<>>)

\* C10 witness: the first call of a behaviour is a restore, made while no
\* section has a member.
C10_Witness == steps = 1 /\ last.op = "restore"

\* C39: after any sequence of calls no view is in the caller's Trash and in
\* the caller's Favorite section at the same time.
C39_TrashNotFavorite ==
  \A v \in DOMAIN folder.views : v \in Range(GetMyTrashInfo(folder, Me)) => ~IsFavorite(folder, Me, v)

\* Trashing leaves the trashed view itself out of Favorite: right after a
\* successful move_view_to_trash(id) by the caller, id is not a favourite.
TrashedLeavesFavorite ==
  (last.op = "trash" /\ last.u = Me /\ last.res = Ok /\ Exists(folder, last.id)) =>
    ~IsFavorite(folder, Me, last.id)

\* ===================================================== concurrent tasks
\* Number of calls the tasks start in one behaviour.
MaxConcCalls == 3

\* Each handler as the sequence of steps a task takes through it.  A step is
\* a lock acquisition, a release, one read section (lock.read() taken and
\* dropped within the step), a part of the section under the write guard, or
\* a call out of the manager.
MoveViewToTrashCheckFirst == <<"check_trash", "lock_write", "trash_insert", "unlock", "notify">>

MoveViewToTrashSteps == <<"lock_write", "check_trash", "trash_insert", "unlock", "notify">>

RestoreTrashSteps == <<"lock_write", "restore", "unlock">>

\* restore_all_trash sends DidUpdateTrash before its write guard goes out of
\* scope
RestoreAllTrashSteps == <<"lock_write", "restore_all", "notify", "unlock">>

DeleteTrashHandlerInside ==
  <<"lock_write", "delete_trash_view_ids", "delete_views", "handler", "unlock">>

DeleteTrashSteps ==
  <<"lock_write", "delete_trash_view_ids", "delete_views", "unlock", "handler">>

UpdateViewSteps == <<"lock_write", "update_view", "unlock", "handler", "notify_read">>

MoveViewSteps ==
  <<"move_check", "get_view_relation", "display_views", "lock_write", "move_view",
    "notify", "unlock">>

MoveNestedViewSteps == <<"move_check", "lock_write", "move_nested_view", "notify", "unlock">>

StepsOf(op) ==
  CASE op = "trash" -> MoveViewToTrashSteps
    [] op = "restore" -> RestoreTrashSteps
    [] op = "restore_all" -> RestoreAllTrashSteps
    [] op = "delete" -> DeleteTrashSteps
    [] op \in {"lock", "unlock"} -> UpdateViewSteps
    [] op = "move_view" -> MoveViewSteps
    [] op = "move_nested_view" -> MoveNestedViewSteps
    [] OTHER -> <<>>

Label(p) == IF pc[p] = 0 THEN "idle" ELSE StepsOf(prog[p].op)[pc[p]]

Holds(p) == rw.writer = p \/ p \in rw.readers

\* dropping whatever guard the task holds
Release(p) ==
  [writer |-> IF rw.writer = p THEN NoGuard ELSE rw.writer, readers |-> rw.readers \ {p}]

\* tokio RwLock: write() waits for every guard to be gone, read() for the writer
CanWrite(p) == rw.writer = NoGuard /\ rw.readers = {}

CanRead(p) == rw.writer = NoGuard

Finishing(p) == pc[p] = Len(StepsOf(prog[p].op))

\* the task goes on to its next step; after the last one the call returns
\* res and the guards still held are dropped
Goto(p, res) ==
  IF Finishing(p)
  THEN /\ pc' = [pc EXCEPT ![p] = 0]
       /\ ret' = [ret EXCEPT ![p] = res]
  ELSE /\ pc' = [pc EXCEPT ![p] = @ + 1]
       /\ UNCHANGED ret

RwAfter(p) == IF Finishing(p) THEN Release(p) ELSE rw

\* an early return: the call ends with res and its guards are dropped
Return(p, res) ==
  /\ pc' = [pc EXCEPT ![p] = 0]
  /\ ret' = [ret EXCEPT ![p] = res]
  /\ rw' = Release(p)

SeqUnchanged == UNCHANGED <<last, steps, before>>

\* The calls the tasks make: all on view a of the mixed tree, which has the
\* sibling c and the child b.
ConcCalls ==
  {[op |-> o, id |-> "a", arg |-> <<>>] : o \in {"trash", "restore", "delete", "lock", "unlock"}}
  \cup {[op |-> "restore_all", id |-> None, arg |-> <<>>],
        [op |-> "move_view", id |-> "a", arg |-> <<1>>],
        [op |-> "move_nested_view", id |-> "a", arg |-> <<"c", None, None, None>>]}

Start(p, c) ==
  /\ pc[p] = 0
  /\ started < MaxConcCalls
  /\ started' = started + 1
  /\ prog' = [prog EXCEPT ![p] = c]
  /\ pc' = [pc EXCEPT ![p] = 1]
  /\ loc' = [loc EXCEPT ![p] = NoLoc]
  /\ ret' = [ret EXCEPT ![p] = "pending"]
  /\ UNCHANGED <<folder, rw>>
  /\ SeqUnchanged

\* lock.write().await
LockWrite(p) ==
  /\ Label(p) = "lock_write"
  /\ CanWrite(p)
  /\ rw' = [rw EXCEPT !.writer = p]
  /\ pc' = [pc EXCEPT ![p] = @ + 1]
  /\ UNCHANGED <<folder, prog, loc, ret, started>>
  /\ SeqUnchanged

\* drop(folder), or the end of the guard's scope
DropGuard(p) ==
  /\ Label(p) = "unlock"
  /\ rw' = Release(p)
  /\ Goto(p, Ok)
  /\ UNCHANGED <<folder, prog, loc, started>>
  /\ SeqUnchanged

\* move_view_to_trash: the already-in-trash check
CheckTrash(p) ==
  /\ Label(p) = "check_trash"
  /\ IF TrashCheck(folder, Me, prog[p].id)
     THEN Return(p, AlreadyTrashed)
     ELSE Goto(p, Ok) /\ rw' = RwAfter(p)
  /\ UNCHANGED <<folder, prog, loc, started>>
  /\ SeqUnchanged

\* move_view_to_trash: the locked check, the cascade and the insertion
TrashInsertStep(p) ==
  /\ Label(p) = "trash_insert"
  /\ LET out == TrashInsert(folder, Me, prog[p].id)
     IN /\ folder' = out.f
        /\ IF out.res # Ok \/ ~Exists(folder, prog[p].id)
           THEN Return(p, out.res) /\ UNCHANGED loc
           ELSE /\ Goto(p, Ok)
                /\ rw' = RwAfter(p)
                /\ loc' = [loc EXCEPT ![p].notes = out.notes]
  /\ UNCHANGED <<prog, started>>
  /\ SeqUnchanged

\* a notification sender is called
Notify(p) ==
  /\ Label(p) = "notify"
  /\ Goto(p, Ok)
  /\ rw' = RwAfter(p)
  /\ UNCHANGED <<folder, prog, loc, started>>
  /\ SeqUnchanged

\* update_view: get_view_pb and notify_did_update_workspace, each in a read
\* section, with the notifications they feed
NotifyRead(p) ==
  /\ Label(p) = "notify_read"
  /\ CanRead(p)
  /\ Goto(p, Ok)
  /\ rw' = RwAfter(p)
  /\ UNCHANGED <<folder, prog, loc, started>>
  /\ SeqUnchanged

\* restore_trash under the write guard
RestoreStep(p) ==
  /\ Label(p) = "restore"
  /\ folder' = DeleteTrashViewIds(folder, Me, prog[p].id)
  /\ Goto(p, Ok)
  /\ rw' = RwAfter(p)
  /\ UNCHANGED <<prog, loc, started>>
  /\ SeqUnchanged

\* restore_all_trash under the write guard
RestoreAllStep(p) ==
  /\ Label(p) = "restore_all"
  /\ folder' = RemoveAllMyTrashSections(folder, Me)
  /\ Goto(p, Ok)
  /\ rw' = RwAfter(p)
  /\ UNCHANGED <<prog, loc, started>>
  /\ SeqUnchanged

\* delete_trash: get_view and delete_trash_view_ids under the write guard
DeleteTrashViewIdsStep(p) ==
  /\ Label(p) = "delete_trash_view_ids"
  /\ loc' = [loc EXCEPT ![p].had_view = Exists(folder, prog[p].id)]
  /\ folder' = DeleteTrashViewIds(folder, Me, prog[p].id)
  /\ Goto(p, Ok)
  /\ rw' = RwAfter(p)
  /\ UNCHANGED <<prog, started>>
  /\ SeqUnchanged

\* delete_trash: delete_views under the write guard
DeleteViewsStep(p) ==
  /\ Label(p) = "delete_views"
  /\ folder' = DeleteViews(folder, prog[p].id)
  /\ Goto(p, Ok)
  /\ rw' = RwAfter(p)
  /\ UNCHANGED <<prog, loc, started>>
  /\ SeqUnchanged

\* the layout handler is called: delete_view after delete_trash,
\* did_update_view after update_view, both only for a view that was found
Handler(p, hok) ==
  /\ Label(p) = "handler"
  /\ IF loc[p].had_view /\ ~hok
     THEN Return(p, HandlerError)
     ELSE Goto(p, Ok) /\ rw' = RwAfter(p)
  /\ UNCHANGED <<folder, prog, loc, started>>
  /\ SeqUnchanged

\* update_view under the write guard (lock_view, unlock_view)
UpdateViewStep(p) ==
  /\ Label(p) = "update_view"
  /\ LET sec == UpdateViewSection(folder, Me, prog[p].id, FALSE,
                                  [NoPatch EXCEPT !.locked =
                                     IF prog[p].op = "lock" THEN "true" ELSE "false"])
     IN /\ folder' = sec.f
        /\ loc' = [loc EXCEPT ![p].had_view = Exists(folder, prog[p].id)]
        /\ IF sec.rejected THEN Return(p, ViewLocked)
           ELSE Goto(p, Ok) /\ rw' = RwAfter(p)
  /\ UNCHANGED <<prog, started>>
  /\ SeqUnchanged

\* move_view / move_nested_view: get_view_pb in a read section of its own,
\* then the locked check on the view it returned
MoveCheckStep(p) ==
  /\ Label(p) = "move_check"
  /\ CanRead(p)
  /\ LET chk == MoveViewCheck(folder, Me, prog[p].id)
     IN IF chk # Ok THEN Return(p, chk)
        ELSE Goto(p, Ok) /\ rw' = RwAfter(p)
  /\ UNCHANGED <<folder, prog, loc, started>>
  /\ SeqUnchanged

\* move_view: get_view_relation in a read section of its own
GetViewRelationStep(p) ==
  /\ Label(p) = "get_view_relation"
  /\ CanRead(p)
  /\ LET rel == GetViewRelation(folder, prog[p].id)
     IN IF ~rel.found THEN Return(p, Ok) /\ UNCHANGED loc
        ELSE /\ Goto(p, Ok)
             /\ rw' = RwAfter(p)
             /\ loc' = [loc EXCEPT ![p].rel = rel]
  /\ UNCHANGED <<folder, prog, started>>
  /\ SeqUnchanged

\* move_view: the display list, read in a section of its own, and the
\* storage indices computed from it and from the child list read before
DisplayViewsStep(p) ==
  /\ Label(p) = "display_views"
  /\ CanRead(p)
  /\ LET disp == DisplayViews(folder, Me, loc[p].rel)
     IN IF disp.res # Ok THEN Return(p, disp.res) /\ UNCHANGED loc
        ELSE IF ~MoveIndices(loc[p].rel, disp.ids, prog[p].id, prog[p].arg[1]).found
        THEN Return(p, Ok) /\ UNCHANGED loc
        ELSE /\ Goto(p, Ok)
             /\ rw' = RwAfter(p)
             /\ loc' = [loc EXCEPT ![p].disp = disp.ids]
  /\ UNCHANGED <<folder, prog, started>>
  /\ SeqUnchanged

\* move_view: Folder::move_view under the write guard
MoveViewStep(p) ==
  /\ Label(p) = "move_view"
  /\ folder' = MoveViewWrite(folder, prog[p].id,
                             MoveIndices(loc[p].rel, loc[p].disp, prog[p].id, prog[p].arg[1]))
  /\ Goto(p, Ok)
  /\ rw' = RwAfter(p)
  /\ UNCHANGED <<prog, loc, started>>
  /\ SeqUnchanged

\* move_nested_view: the section under the write guard
MoveNestedViewStep(p) ==
  /\ Label(p) = "move_nested_view"
  /\ folder' = MoveNestedViewWrite(folder, Me, prog[p].id, prog[p].arg[1], prog[p].arg[2],
                                   prog[p].arg[3], prog[p].arg[4])
  /\ Goto(p, Ok)
  /\ rw' = RwAfter(p)
  /\ UNCHANGED <<prog, loc, started>>
  /\ SeqUnchanged

NextConc ==
  \E p \in Procs :
    \/ \E c \in ConcCalls : Start(p, c)
    \/ LockWrite(p)
    \/ DropGuard(p)
    \/ CheckTrash(p)
    \/ TrashInsertStep(p)
    \/ Notify(p)
    \/ NotifyRead(p)
    \/ RestoreStep(p)
    \/ RestoreAllStep(p)
    \/ DeleteTrashViewIdsStep(p)
    \/ DeleteViewsStep(p)
    \/ \E hok \in BOOLEAN : Handler(p, hok)
    \/ UpdateViewStep(p)
    \/ MoveCheckStep(p)
    \/ GetViewRelationStep(p)
    \/ DisplayViewsStep(p)
    \/ MoveViewStep(p)
    \/ MoveNestedViewStep(p)

InitConc ==
  /\ folder = FolderOf(MixedChildren)
  /\ last = NoCall
  /\ steps = 0
  /\ TasksIdle
  /\ before = NoFolder

SpecConc == InitConc /\ [][NextConc]_vars

\* ==================================================== claims, SpecConc
\* Number of times v occurs in the caller's trash section.
TrashCount(F, v) == Cardinality({i \in DOMAIN F.trash[Me] : F.trash[Me][i] = v})

\* task p takes a step of its call
Steps(p) == pc'[p] # pc[p]

\* C1: however trash(id) calls on one view interleave, the id is added to the
\* caller's Trash at most once: the insertion is made by the task holding the
\* write guard and only while id is not a member, so id never occurs twice;
\* and a call whose check finds id a member returns the already-trashed error
\* and leaves the whole folder as it was.
C1_TrashOnce ==
  /\ [](\A v \in Views : TrashCount(folder, v) <= 1)
  /\ [][\A p \in Procs :
          /\ (Label(p) = "check_trash" /\ Steps(p) /\ TrashCheck(folder, Me, prog[p].id))
               => (pc'[p] = 0 /\ ret'[p] = AlreadyTrashed /\ folder' = folder)
          /\ (Label(p) = "trash_insert" /\ Steps(p))
               => (rw.writer = p /\ ~TrashCheck(folder, Me, prog[p].id))]_vars

\* C1 witness: two trash calls on the same view have returned, one with Ok
\* and one with the already-trashed error, and the view is in Trash once.
C1_Witness ==
  /\ \E p, q \in Procs :
       /\ prog[p].op = "trash" /\ pc[p] = 0 /\ ret[p] = Ok
       /\ prog[q].op = "trash" /\ pc[q] = 0 /\ ret[q] = AlreadyTrashed
       /\ prog[p].id = prog[q].id
  /\ TrashCount(folder, "a") = 1

\* some task's lock_view(id) has returned Ok and the view is locked
LockCompleted(id) ==
  /\ IsLocked(folder, id)
  /\ \E q \in Procs : prog[q].op = "lock" /\ prog[q].id = id /\ pc[q] = 0 /\ ret[q] = Ok

\* C3: when lock_view(id) has completed before move_view or move_nested_view
\* of id makes its write on the tree, the move returns ViewLocked and the
\* child lists stay as they were.
C3_LockCheckedWithReorder ==
  [][\A p \in Procs :
       (Label(p) \in {"move_view", "move_nested_view"} /\ Steps(p) /\ LockCompleted(prog[p].id))
         => (ret'[p] = ViewLocked /\ folder'.children = folder.children)]_vars

\* C8: delete_permanently(id) removes id from Trash and the node id while it
\* holds the write guard without letting it go in between, and the layout
\* handler's delete_view is called only when the task holds no guard, the
\* node and the membership being gone.
C8_DeleteThenHandler ==
  \A p \in Procs :
    prog[p].op = "delete" =>
      /\ Label(p) \in {"delete_trash_view_ids", "delete_views"} => rw.writer = p
      /\ Label(p) = "delete_views" => prog[p].id \notin Range(folder.trash[Me])
      /\ Label(p) = "handler" =>
           /\ ~Holds(p)
           /\ ~Exists(folder, prog[p].id)
           /\ prog[p].id \notin Range(folder.trash[Me])

\* C8 witness: a delete of a view that was there is about to call the
\* handler while another task holds the write guard.
C8_Witness ==
  \E p, q \in Procs :
    /\ prog[p].op = "delete" /\ Label(p) = "handler" /\ loc[p].had_view
    /\ q # p /\ rw.writer = q

\* the steps at which a task calls out of the manager: a notification sender
\* or a layout handler
CallOutSteps == {"notify", "handler"}

\* C31: in every call and every interleaving, a task that is about to call a
\* layout handler or a notification sender holds no guard on the folder's
\* lock, neither the write guard nor a read guard.
C31_NoGuardAtCallOut == \A p \in Procs : Label(p) \in CallOutSteps => ~Holds(p)

\* C37: when move_view(id, from, to) makes its write, the storage indices it
\* hands to the folder are the positions that id and the view shown at
\* display index to hold in the parent's child list at that moment, whatever
\* other calls ran since the lists were read, and after the write id is at
\* the position that view had.
C37_MoveUsesCurrentPositions ==
  [][\A p \in Procs :
       (Label(p) = "move_view" /\ Steps(p)) =>
         LET ix == MoveIndices(loc[p].rel, loc[p].disp, prog[p].id, prog[p].arg[1])
             now == GetViewRelation(folder, prog[p].id)
             target == loc[p].disp[prog[p].arg[1] + 1]
         IN /\ now.found
            /\ ix.from = Position(now.child_views, prog[p].id)
            /\ ix.to = Position(now.child_views, target)
            /\ Position(GetViewRelation(folder', prog[p].id).child_views, prog[p].id) = ix.to]_vars

\* When the child list and the display list are as the call read them, the
\* write uses the current positions and puts id where the target was.
MoveOnUnchangedLists ==
  [][\A p \in Procs :
       (Label(p) = "move_view" /\ Steps(p)
          /\ GetViewRelation(folder, prog[p].id) = loc[p].rel) =>
         LET ix == MoveIndices(loc[p].rel, loc[p].disp, prog[p].id, prog[p].arg[1])
         IN /\ ix.from = Position(loc[p].rel.child_views, prog[p].id)
            /\ Position(GetViewRelation(folder', prog[p].id).child_views, prog[p].id) = ix.to]_vars

\* ============================================ the swap of the tree handle
\* mutex_folder is an ArcSwapOption: store(new_tree) puts another tree, with a
\* lock of its own, behind the handle, and every load_full() made afterwards
\* returns the new tree.  folder is the tree behind the handle, before the
\* tree that was swapped out, steps the number of stores made so far.
MaxStores == 1

\* the trees a store puts behind the handle
SwapTrees == {FolderOf(MixedChildren), FolderOf(FlatChildren)}

\* The calls made around a swap; gen is the number of the tree the call's
\* first load_full() returned.
SwapCalls ==
  {[op |-> "trash", id |-> "a", arg |-> <<>>, gen |-> 0],
   [op |-> "move_view", id |-> "a", arg |-> <<1>>, gen |-> 0],
   [op |-> "move_nested_view", id |-> "a", arg |-> <<"c", None, None, None>>, gen |-> 0]}

\* the call is made; its first step makes its first load_full()
SwapStart(p, c) ==
  /\ pc[p] = 0
  /\ started < MaxConcCalls
  /\ started' = started + 1
  /\ prog' = [prog EXCEPT ![p] = [c EXCEPT !.gen = steps]]
  /\ pc' = [pc EXCEPT ![p] = 1]
  /\ loc' = [loc EXCEPT ![p] = NoLoc]
  /\ ret' = [ret EXCEPT ![p] = "pending"]
  /\ UNCHANGED <<folder, rw>>
  /\ SeqUnchanged

\* store(new_tree), made while no task holds a guard on the tree being
\* replaced.  A call that has not yet loaded the handle will find the new tree.
Store(t) ==
  /\ steps < MaxStores
  /\ rw.writer = NoGuard /\ rw.readers = {}
  /\ folder' = t
  /\ before' = folder
  /\ steps' = steps + 1
  /\ prog' = [p \in Procs |-> IF pc[p] = 1 THEN [prog[p] EXCEPT !.gen = steps + 1]
                                ELSE prog[p]]
  /\ UNCHANGED <<last, pc, loc, rw, ret, started>>

\* the steps that load the handle and read or write the tree it returns
TreeSteps ==
  {"lock_write", "check_trash", "trash_insert", "move_check", "get_view_relation",
   "display_views", "move_view", "move_nested_view"}

NextSwap ==
  \/ \E p \in Procs, c \in SwapCalls : SwapStart(p, c)
  \/ \E t \in SwapTrees : Store(t)
  \/ \E p \in Procs : LockWrite(p)
  \/ \E p \in Procs : DropGuard(p)
  \/ \E p \in Procs : CheckTrash(p)
  \/ \E p \in Procs : TrashInsertStep(p)
  \/ \E p \in Procs : Notify(p)
  \/ \E p \in Procs : MoveCheckStep(p)
  \/ \E p \in Procs : GetViewRelationStep(p)
  \/ \E p \in Procs : DisplayViewsStep(p)
  \/ \E p \in Procs : MoveViewStep(p)
  \/ \E p \in Procs : MoveNestedViewStep(p)

SpecSwap == InitConc /\ [][NextSwap]_vars

\* C32: a call that loaded the tree before a store(new_tree) makes all its
\* remaining reads and writes on the tree it loaded first: every step of the
\* call that reads or writes a tree does so on the tree with the number the
\* call captured, never on the tree stored since.
C32_CallKeepsItsTree ==
  [][\A p \in Procs :
       (Steps(p) /\ Label(p) \in TreeSteps) => prog[p].gen = steps]_vars

\* ================================================== the tree operations
\* Number of calls in one behaviour of SpecTree.
MaxTreeOps == 3

\* Number of views the ancestor walk may push before it is given up as not
\* ending; a folder of this model has four nodes.
MaxWalk == 5

\* the list left in the order it was pushed
KeepOrder(s) == s

Reverse(s) == [i \in 1..Len(s) |-> s[Len(s) + 1 - i]]

\* the loop without the look into the list
RECURSIVE AncestorWalkUnguarded(_, _, _, _)
AncestorWalkUnguarded(F, parent_view_id, ancestors, fuel) ==
  IF ~Exists(F, parent_view_id) THEN [chain |-> ancestors, done |-> TRUE]
  ELSE IF fuel = 0 THEN [chain |-> ancestors, done |-> FALSE]
  ELSE AncestorWalkUnguarded(F, F.views[parent_view_id].parent,
                             Append(ancestors, parent_view_id), fuel - 1)

\* FolderManager::get_view_ancestors_pb, the loop: while the folder has the
\* view, stop if it is in the list already, else push it and go to its
\* parent.  done is FALSE when the loop was still going after MaxWalk pushes.
RECURSIVE AncestorWalk(_, _, _, _)
AncestorWalk(F, parent_view_id, ancestors, fuel) ==
  IF ~Exists(F, parent_view_id) THEN [chain |-> ancestors, done |-> TRUE]
  ELSE IF parent_view_id \in Range(ancestors) THEN [chain |-> ancestors, done |-> TRUE]
  ELSE IF fuel = 0 THEN [chain |-> ancestors, done |-> FALSE]
  ELSE AncestorWalk(F, F.views[parent_view_id].parent, Append(ancestors, parent_view_id),
                    fuel - 1)

\* FolderManager::get_view_ancestors_pb: the list pushed, reversed.
GetViewAncestorsPb(F, u, view_id) ==
  LET walk == AncestorWalk(F, view_id, <<>>, MaxWalk)
  IN [chain |-> Reverse(walk.chain), done |-> walk.done]

NoAncestors == [chain |-> <<>>, done |-> TRUE]

\* One handler call of SpecTree: as Call, and the folder the call found is
\* kept in before, the list a read returned in last.ancestors.
TreeCall(op, u, id, arg, out, ancestors) ==
  /\ steps < MaxTreeOps
  /\ folder' = out.f
  /\ before' = folder
  /\ last' = [op |-> op, u |-> u, id |-> id, arg |-> arg, res |-> out.res,
              notes |-> out.notes, calls |-> out.calls, ancestors |-> ancestors]
  /\ steps' = steps + 1
  /\ UNCHANGED taskVars

TreeTrash(u, id) ==
  TreeCall("trash", u, id, <<>>, MoveViewToTrash(folder, u, id), NoAncestors)

TreeRestoreAll(u) ==
  TreeCall("restore_all", u, None, <<>>, RestoreAllTrash(folder, u), NoAncestors)

TreeDelete(u, id) ==
  TreeCall("delete", u, id, <<TRUE>>, DeleteTrash(folder, u, id, TRUE), NoAncestors)

TreeLock(u, id) == TreeCall("lock", u, id, <<TRUE>>, LockView(folder, u, id, TRUE), NoAncestors)

TreeSetVisibility(u, id, is_public) ==
  TreeCall("set_views_visibility", u, id, <<is_public>>,
           SetViewsVisibility(folder, u, {id}, is_public), NoAncestors)

TreeMove(u, id, to) ==
  TreeCall("move_view", u, id, <<to>>, MoveView(folder, u, id, 0, to), NoAncestors)

TreeMoveNested(u, id, new_parent, prev, from_section, to_section) ==
  TreeCall("move_nested_view", u, id, <<new_parent, prev, from_section, to_section>>,
           MoveNestedView(folder, u, id, new_parent, prev, from_section, to_section),
           NoAncestors)

TreeAncestors(u, id) ==
  TreeCall("ancestors", u, id, <<>>, Outcome(folder, Ok, <<>>, <<>>),
           GetViewAncestorsPb(folder, u, id))

\* from_section / to_section of MoveNestedViewParams
SectionPairs ==
  {<<"Public", "Private">>, <<"Private", "Public">>, <<"Private", "Private">>,
   <<None, "Private">>, <<"Private", None>>}

\* The trash lifecycle, reparenting and the ancestor walk.
NextTree ==
  \/ \E u \in Users, id \in Views : TreeTrash(u, id)
  \/ TreeRestoreAll(Me)
  \/ \E id \in Views : TreeDelete(Me, id)
  \/ \E id \in Views : TreeSetVisibility(Other, id, FALSE)
  \/ \E id \in Views, np \in IDs : TreeMoveNested(Me, id, np, None, None, None)
  \/ \E id \in Views : TreeAncestors(Me, id)

\* Number of calls in one behaviour of SpecMove.
MaxMoveOps == 2

\* The two moves with every choice of their parameters, on trees in which
\* views have been hidden or locked.
MoveBound == steps < MaxMoveOps

NextMove ==
  \/ \E id \in Views : MoveBound /\ TreeTrash(Me, id)
  \/ \E id \in Views : MoveBound /\ TreeLock(Me, id)
  \/ \E id \in Views : MoveBound /\ TreeDelete(Me, id)
  \/ \E id \in Views : MoveBound /\ TreeSetVisibility(Other, id, FALSE)
  \/ \E id \in Views, to \in 0..2 : MoveBound /\ TreeMove(Me, id, to)
  \/ \E id \in Views, np \in IDs : \E prev \in PrevChoices(folder, id, np) :
       MoveBound /\ TreeMoveNested(Me, id, np, prev, None, None)
  \/ \E id \in Views, np \in IDs : \E sec \in SectionPairs :
       MoveBound /\ TreeMoveNested(Me, id, np, None, sec[1], sec[2])

InitTree ==
  /\ folder \in InitFolders
  /\ last = [NoCall EXCEPT !.res = Ok] @@ [ancestors |-> NoAncestors]
  /\ steps = 0
  /\ TasksIdle
  /\ before = folder

SpecTree == InitTree /\ [][NextTree]_vars

SpecMove == InitTree /\ [][NextMove]_vars

\* ==================================================== claims, SpecTree
\* everything of a folder but the Trash sections
OutsideTrash(F) == [F EXCEPT !.trash = [u \in Users |-> <<>>]]

\* C11: after restore_all() the caller's Trash section has no member, the
\* Trash section of every other identity is as it was, and nodes, child
\* lists and the other sections are as they were.  (Trash membership is per
\* identity: a view both identities trashed stays in the other's section.)
C11_RestoreAllMine ==
  last.op = "restore_all" =>
    /\ folder.trash[last.u] = <<>>
    /\ \A u \in Users \ {last.u} : folder.trash[u] = before.trash[u]
    /\ OutsideTrash(folder) = OutsideTrash(before)

\* C11 witness: restore_all has run on a folder in which the caller and the
\* other identity each had a view in Trash.
C11_Witness ==
  /\ last.op = "restore_all"
  /\ before.trash[Me] # <<>>
  /\ before.trash[Other] # <<>>

\* C12: for every caller, the hidden set after trash(v) contains the hidden
\* set from before, and after a successful trash(v) the ids added are exactly
\* v and the descendants of v that were not hidden before.
C12_HiddenMonotonic ==
  last.op = "trash" =>
    \A u \in Users :
      LET hidden_before == GetViewIdsShouldBeFiltered(before, u)
          hidden_after == GetViewIdsShouldBeFiltered(folder, u)
      IN /\ hidden_before \subseteq hidden_after
         /\ last.res = Ok =>
              hidden_after \ hidden_before
                = GetViewRecursively(before, last.id) \ hidden_before

\* C12 witness: a successful trash of a view with one descendant that was
\* hidden already and one that was not.
C12_Witness ==
  /\ last.op = "trash"
  /\ last.res = Ok
  /\ LET below == GetViewRecursively(before, last.id) \ {last.id}
         hidden_before == GetViewIdsShouldBeFiltered(before, Me)
     IN /\ last.id \notin hidden_before
        /\ below \cap hidden_before # {}
        /\ below \ hidden_before # {}

ParentOf(F, id) == IF Exists(F, id) THEN F.views[id].parent ELSE NoParent

\* C13: the list ancestors(id) returns has no view of the caller's hidden
\* set: none that is trashed, lies under a trashed view, or is in another
\* identity's Private section.
C13_AncestorsSubtractHidden ==
  last.op = "ancestors" =>
    Range(last.ancestors.chain) \cap GetViewIdsShouldBeFiltered(folder, last.u) = {}

\* C14: the ancestor walk ends on every tree, one with a cycle in the parent
\* links included, and the list it returns has no id twice.
C14_AncestorsTerminate ==
  last.op = "ancestors" =>
    LET chain == last.ancestors.chain
    IN /\ last.ancestors.done
       /\ \A i, j \in 1..Len(chain) : chain[i] = chain[j] => i = j

\* C14 witness: ancestors(id) has run on a folder in which the parent links
\* from id lead back to id after three steps.
C14_Witness ==
  /\ last.op = "ancestors"
  /\ LET p1 == ParentOf(folder, last.id)
         p2 == ParentOf(folder, p1)
         p3 == ParentOf(folder, p2)
     IN /\ p3 = last.id
        /\ Cardinality({p1, p2, p3}) = 3
  /\ Len(last.ancestors.chain) = 3

\* C15: for an existing id the list runs from the topmost view reached down
\* to id: id is last, each element is the parent of the one after it, and the
\* walk could not go above the first (its parent is no view or is in the
\* list already).
C15_AncestorsOrdered ==
  (last.op = "ancestors" /\ Exists(folder, last.id)) =>
    LET chain == last.ancestors.chain
    IN /\ chain # <<>>
       /\ chain[Len(chain)] = last.id
       /\ \A i \in 1..(Len(chain) - 1) : ParentOf(folder, chain[i + 1]) = chain[i]
       /\ LET top == ParentOf(folder, chain[1])
          IN ~Exists(folder, top) \/ top \in Range(chain)

\* C15 witness: the list returned for a view two levels below the workspace
\* view: the workspace view, the parent, the view.
C15_Witness ==
  /\ last.op = "ancestors"
  /\ Len(last.ancestors.chain) = 3
  /\ last.ancestors.chain[1] = W
  /\ last.ancestors.chain[3] = last.id

\* ==================================================== claims, SpecMove
\* The children of view pid as the caller is shown them.
Displayed(F, u, pid) == GetViewPb(F, u, pid).pb.child_views

Min(x, y) == IF x < y THEN x ELSE y

Max(x, y) == IF x < y THEN y ELSE x

\* C16: move_view(id, from, to) of an unlocked view the caller can see, with
\* to inside the display list of id's parent, returns Ok; afterwards id is at
\* display index to, the other children are in the storage order they had,
\* and a hidden sibling outside the storage range between id's old and new
\* position has the storage index it had.
C16_MoveViewDisplayIndex ==
  LET id == last.id
      u == last.u
      to == last.arg[1]
      pid == ParentOf(before, id)
      old == before.children[pid]
      new == folder.children[pid]
  IN (/\ last.op = "move_view"
      /\ GetViewPb(before, u, id).res = Ok
      /\ ~IsLocked(before, id)
      /\ GetViewPb(before, u, pid).res = Ok
      /\ to < Len(Displayed(before, u, pid)))
     =>
     /\ last.res = Ok
     /\ Displayed(folder, u, pid)[to + 1] = id
     /\ Without(new, {id}) = Without(old, {id})
     /\ \A h \in Range(old) \cap GetViewIdsShouldBeFiltered(before, u) :
          (\/ Position(old, h) < Min(Position(old, id), Position(new, id))
           \/ Position(old, h) > Max(Position(old, id), Position(new, id)))
            => Position(new, h) = Position(old, h)

\* C16 witness: a move_view that changed the place of the view in a child
\* list with a hidden view before both the old and the new place.
C16_Witness ==
  /\ last.op = "move_view"
  /\ last.res = Ok
  /\ LET pid == ParentOf(before, last.id)
         old == before.children[pid]
         new == folder.children[pid]
     IN /\ Position(old, last.id) # Position(new, last.id)
        /\ old[1] \in GetViewIdsShouldBeFiltered(before, last.u)
        /\ new[1] = old[1]

\* the list of views move_view(id, ..) counts display indices in: the
\* workspace's listing for a top-level view, else the children the parent
\* shows; res is not Ok when there is no such list for the caller
DisplayListOf(F, u, id) == DisplayViews(F, u, GetViewRelation(F, id))

Count(s, x) == Cardinality({i \in 1..Len(s) : s[i] = x})

\* C17 (as stated): after a successful move_nested_view(id, new_parent_id,
\* prev_sibling_id), id's parent is new_parent_id, id is not in the child list
\* of the parent it had, and id is directly after prev_sibling_id in
\* new_parent_id's child list, or first in it when prev_sibling_id is absent.
C17_MoveNestedPlaces ==
  LET id == last.id
      np == last.arg[1]
      prev == last.arg[2]
      old_parent == ParentOf(before, id)
  IN (last.op = "move_nested_view" /\ last.res = Ok) =>
       /\ ParentOf(folder, id) = np
       /\ id \notin Range(folder.children[old_parent])
       /\ IF prev = None THEN Position(folder.children[np], id) = 0
          ELSE Position(folder.children[np], id) = Position(folder.children[np], prev) + 1

\* C17 (amended): after a successful move_nested_view(id, new_parent_id,
\* prev_sibling_id) whose new parent exists, id's parent is new_parent_id, id
\* is once in new_parent_id's child list, directly after prev_sibling_id or
\* first when prev_sibling_id is absent, and id is not in the child list of
\* the parent it had unless that parent is new_parent_id.  When the new
\* parent does not exist the call returns Ok and the tree is as it was.
C17_MoveNestedPlacesUnderNewParent ==
  LET id == last.id
      np == last.arg[1]
      prev == last.arg[2]
      old_parent == ParentOf(before, id)
  IN (last.op = "move_nested_view" /\ last.res = Ok) =>
       IF Exists(before, np)
       THEN /\ ParentOf(folder, id) = np
            /\ Count(folder.children[np], id) = 1
            /\ old_parent # np => id \notin Range(folder.children[old_parent])
            /\ IF prev = None THEN Position(folder.children[np], id) = 0
               ELSE Position(folder.children[np], id)
                      = Position(folder.children[np], prev) + 1
       ELSE /\ folder.views = before.views
            /\ folder.children = before.children

\* C17 witness: a view moved from one parent to another and placed after a
\* child of the new parent.
C17_Witness ==
  /\ last.op = "move_nested_view"
  /\ last.res = Ok
  /\ last.arg[2] # None
  /\ ParentOf(before, last.id) # last.arg[1]
  /\ ParentOf(folder, last.id) = last.arg[1]
  /\ Len(folder.children[last.arg[1]]) >= 2

\* C18: after a successful move_nested_view with from_section different from
\* to_section the moved view is in the caller's Private section exactly when
\* to_section is Private; with from_section equal to to_section it is in the
\* Private section exactly when it was before the call.
C18_MoveNestedSection ==
  LET id == last.id
      from_section == last.arg[3]
      to_section == last.arg[4]
  IN (last.op = "move_nested_view" /\ last.res = Ok) =>
       IF from_section # to_section
       THEN (id \in folder.private[last.u]) <=> (to_section = "Private")
       ELSE (id \in folder.private[last.u]) <=> (id \in before.private[last.u])

\* C18 witness: a move from the Private to the Public section has taken the
\* view out of the caller's Private section.
C18_Witness ==
  /\ last.op = "move_nested_view"
  /\ last.res = Ok
  /\ last.arg[3] = "Private"
  /\ last.arg[4] = "Public"
  /\ last.id \in before.private[Me]
  /\ last.id \notin folder.private[Me]

\* C19: move_nested_view(id, new_parent_id = id) does not succeed and leaves
\* nodes and child lists as they were, and no view is its own parent.
C19_MoveIntoSelfRejected ==
  /\ (last.op = "move_nested_view" /\ last.arg[1] = last.id) =>
       /\ last.res # Ok
       /\ folder.views = before.views
       /\ folder.children = before.children
  /\ \A v \in Views : Exists(folder, v) => ParentOf(folder, v) # v

\* ------------------------------------------------------------ duplication
\* Number of calls in one behaviour of SpecDup.
MaxDupOps == 2

\* Number of views of the largest folder a duplicate call is made on.
MaxDupViews == 5

\* Number of clones one duplicate call is followed for: as many as the folder
\* has views when the call starts.  A call that still has pairs on its stack
\* then is cloning its own clones, and is reported as Unfinished with the
\* folder it has built so far.
CloneFuel(F) == Cardinality(DOMAIN F.views)

\* ErrorCode::Internal "Can't duplicate the view({}) to itself"
SelfDuplication == "SelfDuplication"
\* a call whose loop has not emptied its stack within CloneFuel clones
Unfinished == "Unfinished"
\* FlowyError::internal "Get data processor failed. Unknown layout type"
UnknownLayout == "UnknownLayout"
\* an error returned by the cloud service
CloudError == "CloudError"

\* The layouts operation_handlers has a handler for; Grid stands for a layout
\* the manager was built without.
RegisteredLayouts == {"Document", "Chat"}

\* FolderManager::get_handler finds a handler
HasHandler(layout) == layout \in RegisteredLayouts

\* the suffix used when the caller gives none
DefaultSuffix == " (copy)"

\* gen_view_id: an id no view of the folder has
GenViewId(F) == "v" \o ToString(Cardinality(DOMAIN F.views))

\* Folder::is_view_in_section(Section::Private, id), for the caller
IsViewInPrivateSection(F, u, id) == id \in F.private[u]

\* create_view (view_operation.rs): the node built from the parameters
CreateView(params) ==
  [parent |-> params.parent_view_id, name |-> params.name, icon |-> params.icon,
   locked |-> FALSE, layout |-> params.layout, desc |-> "", extra |-> params.extra]

\* Folder::insert_view: the node is stored under its id and the id is put in
\* its parent's child list at the index, or last when there is no index.
FolderInsertView(F, id, view, index) ==
  LET pid == view.parent
      views == [x \in DOMAIN F.views \cup {id} |-> IF x = id THEN view ELSE F.views[x]]
      kids == [x \in DOMAIN F.children \cup {id} |->
                 IF x \in DOMAIN F.children THEN F.children[x] ELSE <<>>]
      children == IF pid \in DOMAIN kids
                  THEN [kids EXCEPT ![pid] = IF index = NotFound THEN Append(@, id)
                                             ELSE InsertAt(@, index, id)]
                  ELSE kids
  IN [F EXCEPT !.views = views, !.children = children]

\* the handler call create_view_with_params makes: create_default_view when
\* the parameters carry neither meta nor initial data
CreateCall(params) ==
  [call |-> IF params.with_data THEN "create_view_with_view_data" ELSE "create_default_view",
   id |-> params.view_id]

\* what create_view_with_params does once the handler has built the view
CreateViewInsert(F, u, params, notify_workspace_update, made) ==
  LET F1 == FolderInsertView(F, params.view_id, CreateView(params), params.index)
      F2 == IF params.section = "Private"
            THEN AddPrivateViewIds(F1, u, {params.view_id}) ELSE F1
  IN [f |-> F2, res |-> Ok, calls |-> made,
      notes |-> IF notify_workspace_update THEN <<Note("DidUpdateWorkspace", {})>> ELSE <<>>]

\* a creation that leaves the view out of the private section
CreateViewWithParamsPublic(F, u, params, notify_workspace_update, calls, fail_at) ==
  LET made == calls \o <<CreateCall(params)>>
  IN IF ~HasHandler(params.layout)
     THEN [f |-> F, res |-> UnknownLayout, calls |-> calls, notes |-> <<>>]
     ELSE IF Len(made) = fail_at
     THEN [f |-> F, res |-> HandlerError, calls |-> made, notes |-> <<>>]
     ELSE CreateViewInsert(F, u, [params EXCEPT !.section = "Public"],
                           notify_workspace_update, made)

\* a creation that looks for no handler when the layout has none
CreateViewWithParamsAnyLayout(F, u, params, notify_workspace_update, calls, fail_at) ==
  LET made == calls \o <<CreateCall(params)>>
  IN IF Len(made) = fail_at
     THEN [f |-> F, res |-> HandlerError, calls |-> made, notes |-> <<>>]
     ELSE CreateViewInsert(F, u, params, notify_workspace_update, made)

\* FolderManager::create_view_with_params: get_handler, the handler's create
\* call, which fails when it is the fail_at-th outside call of the operation,
\* then the insertion, the private membership and the notification.
CreateViewWithParams(F, u, params, notify_workspace_update, calls, fail_at) ==
  LET made == calls \o <<CreateCall(params)>>
  IN IF ~HasHandler(params.layout)
     THEN [f |-> F, res |-> UnknownLayout, calls |-> calls, notes |-> <<>>]
     ELSE IF Len(made) = fail_at
     THEN [f |-> F, res |-> HandlerError, calls |-> made, notes |-> <<>>]
     ELSE CreateViewInsert(F, u, params, notify_workspace_update, made)

\* a name that takes the suffix for every clone
DuplicateNameSuffixed(view, is_source_view, suffix) ==
  (IF view.name = "" THEN "Untitled" ELSE view.name) \o suffix

\* the name of a clone: the source of the call gets the suffix, and Untitled
\* for an empty name; the others keep their name
DuplicateName(view, is_source_view, suffix) ==
  IF is_source_view
  THEN (IF view.name = "" THEN "Untitled" ELSE view.name) \o suffix
  ELSE view.name

\* the children pushed without a look at the filter and the layout
ChildrenToDuplicateUnfiltered(F, filtered_view_ids, current_view_id) ==
  Reverse(GetViewsBelongTo(F, current_view_id))

\* the children pushed on the stack, in push order: those of the view, last
\* first, that are neither filtered nor chats
ChildrenToDuplicate(F, filtered_view_ids, current_view_id) ==
  SelectSeq(Reverse(GetViewsBelongTo(F, current_view_id)),
            LAMBDA c : c \notin filtered_view_ids /\ F.views[c].layout # "Chat")

\* a result id that follows the latest clone
LatestCloneId(is_source_view, created, new_view_id) == created

\* new_view_id: the id of the clone of the source view, kept from then on
FirstCloneId(is_source_view, created, new_view_id) ==
  IF is_source_view THEN created ELSE new_view_id

\* The loop of duplicate_view_with_parent_id: pop a pair, clone the view under
\* the parent of the pair, and with include_children push the children to
\* duplicate, each to go under the clone just made.
RECURSIVE DuplicateLoop(_, _, _, _, _, _, _, _, _, _, _)
DuplicateLoop(F, u, stack, filtered_view_ids, is_source_view, include_children, suffix, new_view_id, calls, fail_at, fuel) ==
  IF stack = <<>> THEN [f |-> F, res |-> Ok, calls |-> calls, new_view_id |-> new_view_id]
  ELSE IF fuel = 0
  THEN [f |-> F, res |-> Unfinished, calls |-> calls, new_view_id |-> new_view_id]
  ELSE
    LET current_view_id == stack[Len(stack)][1]
        current_parent_id == stack[Len(stack)][2]
        rest == SubSeq(stack, 1, Len(stack) - 1)
    IN IF ~Exists(F, current_view_id)
       THEN [f |-> F, res |-> RecordNotFound, calls |-> calls, new_view_id |-> new_view_id]
       ELSE IF ~HasHandler(F.views[current_view_id].layout)
       THEN [f |-> F, res |-> UnknownLayout, calls |-> calls, new_view_id |-> new_view_id]
       ELSE
         LET view == F.views[current_view_id]
             dup == calls \o <<[call |-> "duplicate_view", id |-> current_view_id]>>
         IN IF Len(dup) = fail_at
            THEN [f |-> F, res |-> HandlerError, calls |-> dup, new_view_id |-> new_view_id]
            ELSE
              LET rel == GetViewRelation(F, current_parent_id)
                  index == IF rel.found
                           THEN Position(SelectSeq(rel.child_views,
                                                   LAMBDA id : id \in filtered_view_ids),
                                         current_view_id)
                           ELSE NotFound
                  section == IF IsViewInPrivateSection(F, u, current_view_id)
                             THEN "Private" ELSE "Public"
                  params == [parent_view_id |-> current_parent_id,
                             name |-> DuplicateName(view, is_source_view, suffix),
                             layout |-> view.layout, view_id |-> GenViewId(F),
                             with_data |-> TRUE, index |-> index, section |-> section,
                             extra |-> view.extra, icon |-> view.icon]
                  made == CreateViewWithParams(F, u, params, FALSE, dup, fail_at)
              IN IF made.res # Ok
                 THEN [f |-> made.f, res |-> made.res, calls |-> made.calls,
                       new_view_id |-> new_view_id]
                 ELSE
                   LET kept == ChildrenToDuplicate(made.f, filtered_view_ids, current_view_id)
                       pushed == [i \in 1..Len(kept) |-> <<kept[i], params.view_id>>]
                   IN DuplicateLoop(made.f, u,
                                    IF include_children THEN rest \o pushed ELSE rest,
                                    filtered_view_ids, FALSE, include_children, suffix,
                                    FirstCloneId(is_source_view, params.view_id, new_view_id),
                                    made.calls, fail_at, fuel - 1)

\* what follows the loop: with sync_after_create the batch handed to the
\* cloud service, then the notification of the parent and the read of the
\* first clone
DuplicateFinish(done, u, parent_view_id, sync_after_create, fail_at) ==
  LET synced == IF sync_after_create
                THEN done.calls \o <<[call |-> "batch_create_folder_collab_objects",
                                      id |-> None]>>
                ELSE done.calls
      pb == GetViewPb(done.f, u, done.new_view_id)
  IN IF sync_after_create /\ Len(synced) = fail_at
     THEN Outcome(done.f, CloudError, <<>>, synced) @@ [view |-> NoViewPb]
     ELSE Outcome(done.f, pb.res, <<Note("DidUpdateChildViews", {parent_view_id})>>, synced)
            @@ [view |-> pb.pb]

\* a duplication that gives back the folder it found when a step fails
DuplicateViewFromRollingBack(F, u, view_id, parent_view_id, include_children, suffix, sync_after_create, fail_at) ==
  LET done == DuplicateLoop(F, u, <<<<view_id, parent_view_id>>>>,
                            GetViewIdsShouldBeFiltered(F, u), TRUE, include_children,
                            IF suffix = None THEN DefaultSuffix ELSE suffix,
                            None, <<>>, fail_at, CloneFuel(F))
      out == DuplicateFinish(done, u, parent_view_id, sync_after_create, fail_at)
  IN IF done.res # Ok THEN Outcome(F, done.res, <<>>, done.calls) @@ [view |-> NoViewPb]
     ELSE IF out.res # Ok THEN [out EXCEPT !.f = F]
     ELSE out

\* what follows the self check of duplicate_view_with_parent_id: the filter
\* read once, the suffix, the loop and what follows it
DuplicateViewFrom(F, u, view_id, parent_view_id, include_children, suffix, sync_after_create, fail_at) ==
  LET done == DuplicateLoop(F, u, <<<<view_id, parent_view_id>>>>,
                            GetViewIdsShouldBeFiltered(F, u), TRUE, include_children,
                            IF suffix = None THEN DefaultSuffix ELSE suffix,
                            None, <<>>, fail_at, CloneFuel(F))
  IN IF done.res # Ok THEN Outcome(done.f, done.res, <<>>, done.calls) @@ [view |-> NoViewPb]
     ELSE DuplicateFinish(done, u, parent_view_id, sync_after_create, fail_at)

\* a duplication without the check of the view against the parent
DuplicateViewWithParentIdUnchecked(F, u, view_id, parent_view_id, include_children, suffix, sync_after_create, fail_at) ==
  DuplicateViewFrom(F, u, view_id, parent_view_id, include_children, suffix,
                    sync_after_create, fail_at)

\* FolderManager::duplicate_view_with_parent_id
DuplicateViewWithParentId(F, u, view_id, parent_view_id, include_children, suffix, sync_after_create, fail_at) ==
  IF view_id = parent_view_id
  THEN Outcome(F, SelfDuplication, <<>>, <<>>) @@ [view |-> NoViewPb]
  ELSE DuplicateViewFrom(F, u, view_id, parent_view_id, include_children, suffix,
                         sync_after_create, fail_at)

\* One duplicate call.  opt: the suffix (None for the default), whether the
\* clones are sent to the cloud, and fail_at, 0 for outside calls that all
\* succeed and k for a failure of the k-th one.
TreeDuplicate(u, view_id, parent_view_id, include_children, opt) ==
  LET out == DuplicateViewWithParentId(folder, u, view_id, parent_view_id, include_children,
                                       opt.suffix, opt.sync_after_create, opt.fail_at)
  IN /\ Cardinality(DOMAIN folder.views) <= MaxDupViews
     /\ folder' = out.f
     /\ before' = folder
     /\ last' = [op |-> "duplicate", u |-> u, id |-> view_id,
                 arg |-> <<parent_view_id, include_children, opt.fail_at, opt.suffix,
                           opt.sync_after_create>>,
                 res |-> out.res, notes |-> out.notes, calls |-> out.calls,
                 ancestors |-> NoAncestors, view |-> out.view]
     /\ steps' = steps + 1
     /\ UNCHANGED taskVars

DupBound == steps < MaxDupOps

\* the ways a duplicate call is made: default and given suffix, without and
\* with the cloud, and a failure of the first, second and third outside call
DupOptions ==
  {[suffix |-> None, sync_after_create |-> FALSE, fail_at |-> 0],
   [suffix |-> " 2", sync_after_create |-> TRUE, fail_at |-> 0]}
  \cup {[suffix |-> None, sync_after_create |-> TRUE, fail_at |-> k] : k \in 1..3}

\* The folders of SpecDup: the chain, an unnamed view with two children
\* (W > a > [b, c]), and the chain with a chat b.
FanChildren == [id \in IDs |-> CASE id = W -> <<"a">> [] id = "a" -> <<"b", "c">>
                                    [] OTHER -> <<>>]

FanFolder == [FolderOf(FanChildren) EXCEPT !.views["a"].name = ""]

ChatFolder == [FolderOf(ChainChildren) EXCEPT !.views["b"].layout = "Chat"]

DupFolders == {FolderOf(ChainChildren), FanFolder, ChatFolder}

\* the destinations of the duplicate calls: the workspace, the top view and a
\* view below it
DupParents == {W, "a", "c"}

InitDup ==
  /\ folder \in DupFolders
  /\ last = [NoCall EXCEPT !.res = Ok] @@ [ancestors |-> NoAncestors]
  /\ steps = 0
  /\ TasksIdle
  /\ before = folder

\* The calls of SpecDup: the ones that put views in the hidden set and in the
\* caller's private section, and duplicate into each of DupParents, with and
\* without children, in each of the ways of DupOptions.
NextDup ==
  \/ \E id \in Views : DupBound /\ TreeTrash(Me, id)
  \/ \E u \in Users, id \in Views : DupBound /\ TreeSetVisibility(u, id, FALSE)
  \/ \E id \in Views, parent \in DupParents, include_children \in BOOLEAN,
        opt \in DupOptions :
       DupBound /\ TreeDuplicate(Me, id, parent, include_children, opt)

SpecDup == InitDup /\ [][NextDup]_vars

\* C20: a duplicate call whose view is its own destination parent returns the
\* self-duplication error, has called no layout handler, and leaves the
\* folder as it found it: no view more, no section changed.
C20_SelfDuplicationRejected ==
  (last.op = "duplicate" /\ last.arg[1] = last.id)
    => /\ last.res = SelfDuplication
       /\ last.calls = <<>>
       /\ folder = before

\* C20 witness: with children asked for, a duplicate of a view that exists
\* and has children into itself has returned.
C20_Witness ==
  /\ last.op = "duplicate"
  /\ last.arg[1] = last.id
  /\ last.arg[2]
  /\ Exists(before, last.id)
  /\ GetViewsBelongTo(before, last.id) # <<>>
  /\ last.res = SelfDuplication

\* the views a call has added to the folder
Created == DOMAIN folder.views \ DOMAIN before.views

\* <<source, clone>> for every clone the latest call has created, read from
\* its handler calls: duplicate_view of the source, then the create call
ClonePairs ==
  {<<last.calls[i].id, last.calls[i + 1].id>> :
     i \in {j \in 1..(Len(last.calls) - 1) :
              /\ last.calls[j].call = "duplicate_view"
              /\ last.calls[j + 1].call = "create_view_with_view_data"
              /\ last.calls[j + 1].id \in Created}}

ClonesOf(x) == {p[2] : p \in {q \in ClonePairs : q[1] = x}}

\* the children of a view that a duplication with children is to clone: the
\* existing ones that are neither hidden nor chats, in storage order
ShownChildren(F, hidden, id) ==
  SelectSeq(GetViewsBelongTo(F, id), LAMBDA c : c \notin hidden /\ F.views[c].layout # "Chat")

\* the part of the subtree of a view a duplication with children is to clone:
\* the view, and below each view of the part its shown children
RECURSIVE ShownBelow(_, _, _, _)
ShownBelow(F, hidden, todo, seen) ==
  IF todo = {} THEN seen
  ELSE LET x == CHOOSE y \in todo : TRUE
       IN ShownBelow(F, hidden,
                     (todo \cup Range(ShownChildren(F, hidden, x))) \ (seen \cup {x}),
                     seen \cup {x})

\* a duplicate call with children on a view that exists, into another view,
\* with every outside call succeeding
FullDuplicate ==
  /\ last.op = "duplicate"
  /\ last.arg[2]
  /\ last.arg[3] = 0
  /\ last.arg[1] # last.id
  /\ Exists(before, last.id)

\* C21: a duplicate with children creates exactly one view for every node of
\* the source subtree that is reached through views that are neither hidden
\* nor chats, every created id is new to the folder, and the clones of the
\* children of a node are the children of its clone, in the order of their
\* sources.
C21_OneClonePerNode ==
  FullDuplicate =>
    LET hidden == GetViewIdsShouldBeFiltered(before, last.u)
        nodes == ShownBelow(before, hidden, {last.id}, {})
    IN /\ Cardinality(Created) = Cardinality(nodes)
       /\ \A x \in nodes : Cardinality(ClonesOf(x)) = 1
       /\ \A x \in nodes : \A y \in ClonesOf(x) :
            LET kids == ShownChildren(before, hidden, x)
            IN /\ Len(folder.children[y]) = Len(kids)
               /\ \A i \in 1..Len(kids) : folder.children[y][i] \in ClonesOf(kids[i])

\* the views below the source of the latest duplicate call that the call is
\* to skip: the hidden ones and the chats
Skipped ==
  LET hidden == GetViewIdsShouldBeFiltered(before, last.u)
  IN {s \in GetViewRecursively(before, last.id) \ {last.id} :
        s \in hidden \/ before.views[s].layout = "Chat"}

\* C22: a duplicate with children clones no view below its source that is in
\* the hidden set or a chat, and no view of the subtree of such a view,
\* whatever the call returns.
C22_SkippedNotCloned ==
  (last.op = "duplicate" /\ last.arg[2] /\ Exists(before, last.id))
    => \A s \in Skipped : \A x \in GetViewRecursively(before, s) : ClonesOf(x) = {}

\* C22 witness: a duplicate with children has returned Ok and has made a
\* clone; below its source it has left out a chat that has a child, or a
\* hidden view that has a child outside the hidden set.
C22_Witness ==
  /\ FullDuplicate
  /\ last.res = Ok
  /\ Created # {}
  /\ \E s \in Skipped :
       \E c \in Range(GetViewsBelongTo(before, s)) :
         c \notin GetViewIdsShouldBeFiltered(before, last.u)

\* the clone of the source view of the latest duplicate call: the view its
\* first create call was made for
FirstClone == last.calls[2].id

HasFirstClone == Len(last.calls) >= 2 /\ last.calls[2].id \in Created

\* C23: of the clones a duplicate call has created, the clone of its source
\* view is named as the source with the suffix of the call after it, " (copy)"
\* when the call gives none, and Untitled takes the place of an empty source
\* name; every other clone has the name of the view it is a clone of.
C23_CloneNames ==
  last.op = "duplicate" =>
    \A p \in ClonePairs :
      LET given == folder.views[p[1]].name
          suffix == IF last.arg[4] = None THEN " (copy)" ELSE last.arg[4]
      IN IF p[1] = last.id /\ p[2] = FirstClone
         THEN folder.views[p[2]].name = (IF given = "" THEN "Untitled" ELSE given) \o suffix
         ELSE folder.views[p[2]].name = given

\* C23 witness: a duplicate with children and no suffix of a view without a
\* name has returned Ok with the clone of the source named Untitled (copy)
\* and a clone of a child next to it.
C23_Witness ==
  /\ FullDuplicate
  /\ last.res = Ok
  /\ last.arg[4] = None
  /\ before.views[last.id].name = ""
  /\ HasFirstClone
  /\ folder.views[FirstClone].name = "Untitled (copy)"
  /\ Cardinality(Created) >= 2

\* the caller's Private membership of a view when the latest call cloned it:
\* the call changes the membership of no view it has not created
PrivateWhenCloned(x) ==
  IF x \in DOMAIN before.views THEN x \in before.private[last.u] ELSE x \in folder.private[last.u]

\* C24: every clone a duplicate call has created is in the caller's Private
\* section exactly when the view it is a clone of was in it when it was
\* cloned; no clone is in the Private section of another identity.
C24_ClonePrivacy ==
  last.op = "duplicate" =>
    \A p \in ClonePairs :
      /\ (p[2] \in folder.private[last.u]) = PrivateWhenCloned(p[1])
      /\ \A o \in Users \ {last.u} : p[2] \notin folder.private[o]

\* C24 witness: a duplicate with children has returned Ok with a clone of a
\* private view, which is private, and a clone of a view that is not, which
\* is not.
C24_Witness ==
  /\ FullDuplicate
  /\ last.res = Ok
  /\ \E p \in ClonePairs : PrivateWhenCloned(p[1]) /\ p[2] \in folder.private[last.u]
  /\ \E p \in ClonePairs : ~PrivateWhenCloned(p[1]) /\ p[2] \notin folder.private[last.u]

\* C25: the view a duplicate call returns with Ok is the view it created
\* first: the clone of the view of the call, a child of the parent of the
\* call.
C25_ReturnsFirstClone ==
  (last.op = "duplicate" /\ last.res = Ok) =>
    /\ HasFirstClone
    /\ last.view.id = FirstClone
    /\ <<last.id, last.view.id>> \in ClonePairs
    /\ last.view.view.parent = last.arg[1]
    /\ last.view.id \in Range(folder.children[last.arg[1]])

\* C25 witness: a duplicate with children has returned Ok after it has
\* created the clone of its source and a clone of a view below it.
C25_Witness ==
  /\ FullDuplicate
  /\ last.res = Ok
  /\ HasFirstClone
  /\ \E p \in ClonePairs : p[1] # last.id /\ p[2] # last.view.id

\* the errors about the structure and the state of the tree
StructuralErrors == {ViewLocked, RecordNotFound, AlreadyTrashed, SelfDuplication}

\* C26: a call that has returned ViewLocked, RecordNotFound, the
\* already-in-trash error or the self-duplication error has left the nodes,
\* the child lists and the sections of the folder as it found them.
C26_ErrorLeavesTree ==
  (last.op # "none" /\ last.res \in StructuralErrors) => folder = before

\* the views the create calls of the latest call were made for, the calls
\* before its k-th outside call
MadeBefore(k) ==
  {last.calls[i].id : i \in {j \in 1..Len(last.calls) :
                               j < k /\ last.calls[j].call = "create_view_with_view_data"}}

\* C27: a duplicate call whose k-th outside call, to a layout handler or to
\* the cloud service, has failed has made no call after it and returns its
\* error; the views of the create calls before it are in the folder, no other
\* view has been created, and no view the call found has changed.
C27_FailureKeepsClones ==
  (last.op = "duplicate" /\ last.res \in {HandlerError, CloudError}) =>
    LET k == last.arg[3]
    IN /\ Len(last.calls) = k
       /\ last.res = IF last.calls[k].call = "batch_create_folder_collab_objects"
                     THEN CloudError ELSE HandlerError
       /\ Created = MadeBefore(k)
       /\ \A v \in Created : Exists(folder, v)
       /\ \A v \in DOMAIN before.views : folder.views[v] = before.views[v]

\* C27 witness: the duplicate_view call of a handler has failed for a child
\* after the clone of the source was created, and the clone is in the folder.
C27_Witness ==
  /\ last.op = "duplicate"
  /\ last.res = HandlerError
  /\ last.arg[3] = 3
  /\ last.calls[3].call = "duplicate_view"
  /\ Cardinality(Created) = 1
  /\ \A v \in Created : Exists(folder, v)

\* C35: a duplicate with children ends for every destination parent, one
\* inside the source subtree included: every view it clones belongs to the
\* source subtree as the call found it, and no view the call created is
\* cloned in its turn.
C35_DuplicateTerminates ==
  (last.op = "duplicate" /\ last.arg[2] /\ Exists(before, last.id)) =>
    /\ last.res # Unfinished
    /\ \A p \in ClonePairs :
         /\ p[1] \in GetViewRecursively(before, last.id)
         /\ p[1] \notin Created

\* A duplicate with children into a parent outside the source subtree ends,
\* and clones views of the source subtree only.
DuplicateEndsOutsideSubtree ==
  (last.op = "duplicate" /\ last.arg[2] /\ Exists(before, last.id)
     /\ last.arg[1] \notin GetViewRecursively(before, last.id)) =>
    /\ last.res # Unfinished
    /\ \A p \in ClonePairs : p[1] \in GetViewRecursively(before, last.id)

\* ------------------------------------------------------------- create_view
\* Number of calls in one behaviour of SpecCreate.
MaxCreateOps == 3

CreateBound == steps < MaxCreateOps

\* The parameters of the create calls, but for the parent and the id: a
\* default view appended to the public views, an unnamed private view with
\* data put first, the same for a layout without a handler, and a view whose
\* handler fails.
CreateInputs ==
  {[name |-> "n1", layout |-> "Document", section |-> None, index |-> NotFound,
    with_data |-> FALSE, fail_at |-> 0],
   [name |-> "", layout |-> "Document", section |-> "Private", index |-> 0,
    with_data |-> TRUE, fail_at |-> 0],
   [name |-> "n1", layout |-> "Grid", section |-> "Private", index |-> 0,
    with_data |-> TRUE, fail_at |-> 0],
   [name |-> "n1", layout |-> "Document", section |-> "Public", index |-> NotFound,
    with_data |-> TRUE, fail_at |-> 1]}

\* CreateViewParams: the input under the parent, with a generated view id
\* (gen_view_id), an icon and extra data
CreateViewParams(F, parent_view_id, in) ==
  [parent_view_id |-> parent_view_id, name |-> in.name, layout |-> in.layout,
   view_id |-> GenViewId(F), with_data |-> in.with_data, index |-> in.index,
   section |-> in.section, extra |-> "e1", icon |-> "i1"]

\* One create_view_with_params call, the workspace notified.
TreeCreate(u, parent_view_id, in) ==
  LET params == CreateViewParams(folder, parent_view_id, in)
  IN TreeCall("create", u, params.view_id, <<params>>,
              CreateViewWithParams(folder, u, params, TRUE, <<>>, in.fail_at), NoAncestors)

\* The calls of SpecCreate: the ones that put views in the hidden set, and
\* create under every view with each of CreateInputs.
NextCreate ==
  \/ \E id \in Views : CreateBound /\ TreeTrash(Me, id)
  \/ \E id \in Views : CreateBound /\ TreeSetVisibility(Other, id, FALSE)
  \/ \E parent \in IDs, in \in CreateInputs : CreateBound /\ TreeCreate(Me, parent, in)

SpecCreate == InitTree /\ [][NextCreate]_vars

\* C28: a create call for a layout without a registered handler returns the
\* unknown-layout error, has called no handler, and leaves the folder as it
\* found it: no node more, no section changed.
C28_UnknownLayoutRejected ==
  (last.op = "create" /\ last.arg[1].layout \notin {"Document", "Chat"})
    => /\ last.res = UnknownLayout
       /\ last.calls = <<>>
       /\ folder = before

\* C28 witness: a create call for a private view of a layout without a
\* handler has returned the unknown-layout error.
C28_Witness ==
  /\ last.op = "create"
  /\ last.arg[1].layout = "Grid"
  /\ last.arg[1].section = "Private"
  /\ last.res = UnknownLayout

\* C29: right after a create call has returned Ok, get_view_pb of the id of
\* its parameters returns Ok with a view that has the id, parent, name,
\* layout, icon and extra data of the parameters, is no favorite and has no
\* children.
C29_CreateThenFetch ==
  (last.op = "create" /\ last.res = Ok) =>
    LET params == last.arg[1]
        got == GetViewPb(folder, last.u, params.view_id)
    IN /\ got.res = Ok
       /\ got.pb.id = params.view_id
       /\ got.pb.view.parent = params.parent_view_id
       /\ got.pb.view.name = params.name
       /\ got.pb.view.layout = params.layout
       /\ got.pb.view.icon = params.icon
       /\ got.pb.view.extra = params.extra
       /\ ~got.pb.is_favorite
       /\ got.pb.child_views = <<>>

\* ------------------------------------------------- update_view_with_params
\* Number of calls in one behaviour of SpecUpdate.
MaxUpdateOps == 2

\* the fields of UpdateViewParams next to the view id
PatchFields == {"name", "desc", "thumbnail", "layout", "is_favorite", "extra"}

\* The patches of the update calls: none of the fields, the name, the
\* description with the layout and the extra data, the favorite flag set and
\* cleared, and the thumbnail.
UpdatePatches ==
  {NoPatch,
   [NoPatch EXCEPT !.name = "n1"],
   [NoPatch EXCEPT !.desc = "d1", !.layout = "Grid", !.extra = "e1"],
   [NoPatch EXCEPT !.is_favorite = "true"],
   [NoPatch EXCEPT !.is_favorite = "false", !.name = "n2"],
   [NoPatch EXCEPT !.thumbnail = "t1"]}

\* the update calls: each patch with a handler that succeeds, and one with a
\* handler that fails
UpdateInputs ==
  {[patch |-> q, hok |-> TRUE] : q \in UpdatePatches}
  \cup {[patch |-> [NoPatch EXCEPT !.name = "n1"], hok |-> FALSE]}

TreeUpdate(u, id, in) ==
  TreeCall("update_view", u, id, <<in.patch, in.hok>>,
           UpdateViewWithParams(folder, u, id, in.patch, in.hok), NoAncestors)

\* The calls of SpecUpdate: lock, the caller's private section, and update
\* with each of UpdateInputs.
NextUpdate ==
  \/ \E id \in Views : steps < MaxUpdateOps /\ TreeLock(Me, id)
  \/ \E id \in Views : steps < MaxUpdateOps /\ TreeSetVisibility(Me, id, FALSE)
  \/ \E id \in Views, in \in UpdateInputs : steps < MaxUpdateOps /\ TreeUpdate(Me, id, in)

SpecUpdate == InitTree /\ [][NextUpdate]_vars

\* What a read of the view gives for a field of the patch: the field of the
\* node, the caller's favorite membership for is_favorite, and nothing for
\* the thumbnail, which no read returns.
Stored(F, u, id, field) ==
  CASE field = "name" -> F.views[id].name
    [] field = "desc" -> F.views[id].desc
    [] field = "layout" -> F.views[id].layout
    [] field = "extra" -> F.views[id].extra
    [] field = "is_favorite" -> IF id \in F.favorite[u] THEN "true" ELSE "false"
    [] OTHER -> None

\* C30: after an update call has returned Ok for a view that exists, every
\* field present in the patch reads as the value of the patch and every
\* field absent from it as before; the icon, the lock and the parent of the
\* view, every other view, every child list, the Trash, Private and Recent
\* sections and the favorite flag of every other view are as before.
C30_UpdatePatchFrame ==
  (last.op = "update_view" /\ last.res = Ok /\ Exists(before, last.id)) =>
    LET patch == last.arg[1]
        id == last.id
    IN /\ \A f \in PatchFields :
            Stored(folder, last.u, id, f)
              = IF patch[f] = None THEN Stored(before, last.u, id, f) ELSE patch[f]
       /\ folder.views[id].icon = before.views[id].icon
       /\ folder.views[id].locked = before.views[id].locked
       /\ folder.views[id].parent = before.views[id].parent
       /\ \A v \in DOMAIN before.views \ {id} : folder.views[v] = before.views[v]
       /\ folder.children = before.children
       /\ folder.trash = before.trash
       /\ folder.private = before.private
       /\ folder.recent = before.recent
       /\ \A w \in Users : folder.favorite[w] \ {id} = before.favorite[w] \ {id}
       /\ \A w \in Users \ {last.u} : folder.favorite[w] = before.favorite[w]

\* ---------------------------------------------------------------- publish
\* Number of views a publish walk may visit before it is given up as not
\* ending: a walk that visits more views than the folder has visits one twice.
PublishFuel(F) == Cardinality(DOMAIN F.views)

\* FolderManager::build_publish_views: get_view_pb of the view, then the same
\* for every child listed; a view that cannot be fetched contributes nothing.
\* visited is the list of views fetched, done is FALSE when the recursion was
\* still going after PublishFuel views.
RECURSIVE BuildPublishViews(_, _, _, _, _)
BuildPublishViews(F, u, todo, visited, fuel) ==
  IF todo = <<>> THEN [done |-> TRUE, visited |-> visited]
  ELSE LET got == GetViewPb(F, u, Head(todo))
       IN IF got.res # Ok THEN BuildPublishViews(F, u, Tail(todo), visited, fuel)
          ELSE IF fuel = 0 THEN [done |-> FALSE, visited |-> visited]
          ELSE BuildPublishViews(F, u, got.pb.child_views \o Tail(todo),
                                 Append(visited, Head(todo)), fuel - 1)

\* FolderManager::get_publish_payload: the handler gathers the collab, then
\* the view, its child metadata and its ancestors are read.
GetPublishPayload(F, u, view_id, layout, gather_fails) ==
  IF ~HasHandler(layout) THEN [res |-> UnknownLayout, built |-> <<>>]
  ELSE IF view_id \in gather_fails THEN [res |-> HandlerError, built |-> <<>>]
  ELSE IF GetViewPb(F, u, view_id).res # Ok THEN [res |-> RecordNotFound, built |-> <<>>]
  ELSE LET build == BuildPublishViews(F, u, <<view_id>>, <<>>, PublishFuel(F))
       IN IF ~build.done THEN [res |-> Unfinished, built |-> build.visited]
          ELSE IF ~GetViewAncestorsPb(F, u, view_id).done
          THEN [res |-> Unfinished, built |-> build.visited]
          ELSE [res |-> Ok, built |-> build.visited]

\* FolderManager::get_batch_publish_payload, the loop: pop a view, skip it
\* when it cannot be fetched or is a Chat, push its payload when one could be
\* made, and with include_children push the children listed.
RECURSIVE PublishLoop(_, _, _, _, _, _, _, _)
PublishLoop(F, u, stack, payloads, visited, include_children, gather_fails, fuel) ==
  IF stack = <<>> THEN [res |-> Ok, payloads |-> payloads, visited |-> visited]
  ELSE LET current_view_id == stack[Len(stack)]
           rest == SubSeq(stack, 1, Len(stack) - 1)
           got == GetViewPb(F, u, current_view_id)
       IN IF got.res # Ok \/ got.pb.view.layout = "Chat"
          THEN PublishLoop(F, u, rest, payloads, visited, include_children, gather_fails, fuel)
          ELSE IF fuel = 0
          THEN [res |-> Unfinished, payloads |-> payloads, visited |-> visited]
          ELSE LET pay == GetPublishPayload(F, u, current_view_id, got.pb.view.layout,
                                            gather_fails)
               IN IF pay.res = Unfinished
                  THEN [res |-> Unfinished, payloads |-> payloads,
                        visited |-> Append(visited, current_view_id)]
                  ELSE PublishLoop(F, u,
                         IF include_children THEN rest \o got.pb.child_views ELSE rest,
                         IF pay.res = Ok THEN Append(payloads, current_view_id) ELSE payloads,
                         Append(visited, current_view_id),
                         include_children, gather_fails, fuel - 1)

GetBatchPublishPayload(F, u, view_id, include_children, gather_fails) ==
  PublishLoop(F, u, <<view_id>>, <<>>, <<>>, include_children, gather_fails, PublishFuel(F))

\* One publish call: the folder stays as it is; the payloads made and the
\* views the loop popped and fetched are kept in last.
TreePublish(u, view_id, include_children, gather_fails) ==
  LET out == GetBatchPublishPayload(folder, u, view_id, include_children, gather_fails)
  IN /\ steps < MaxTreeOps
     /\ folder' = folder
     /\ before' = folder
     /\ last' = [op |-> "publish", u |-> u, id |-> view_id,
                 arg |-> <<include_children, gather_fails>>, res |-> out.res,
                 notes |-> <<>>, calls |-> out.payloads, ancestors |-> NoAncestors,
                 visited |-> out.visited]
     /\ steps' = steps + 1
     /\ UNCHANGED taskVars

\* Publishing on trees that reparenting and trashing have changed.
NextPublish ==
  \/ \E id \in Views : TreeTrash(Me, id)
  \/ \E id \in Views, np \in IDs : TreeMoveNested(Me, id, np, None, None, None)
  \/ \E id \in Views, inc \in BOOLEAN, fails \in {{}, {"b"}} : TreePublish(Me, id, inc, fails)

SpecPublish == InitTree /\ [][NextPublish]_vars

\* some view is reached from itself along the child lists
ChildCycle(F) ==
  \E v \in DOMAIN F.views :
    Exists(F, v) /\ \E c \in Range(GetViewsBelongTo(F, v)) : v \in GetViewRecursively(F, c)

\* C33: publish payload assembly, with include_children and the build of the
\* child metadata included, ends on every tree, one with a cycle in the child
\* links included, and the loop visits no view id more than once.
C33_PublishTerminates ==
  last.op = "publish" =>
    /\ last.res # Unfinished
    /\ \A i, j \in 1..Len(last.visited) : last.visited[i] = last.visited[j] => i = j

\* On a tree without a cycle in the child links the assembly ends and visits
\* every view once.
PublishEndsWithoutCycle == (last.op = "publish" /\ ~ChildCycle(folder)) => C33_PublishTerminates

\* ------------------------------------------------------ the absent handle
\* mutex_folder before a tree was stored: load_full() returns None.
Absent == [loaded |-> FALSE]

Loaded == folder # Absent

\* the error of folder_not_init_error
FolderNotInit == "FolderNotInit"

\* The calls made while no tree is loaded.
AbsentCalls ==
  {[op |-> "create", id |-> "v0", arg |-> <<in.layout, in.with_data, in.fail_at>>] :
     in \in CreateInputs}
  \cup {[op |-> o, id |-> v, arg |-> <<>>] :
          o \in {"trash", "toggle_favorite", "update_view"}, v \in Views}
  \cup {[op |-> "delete", id |-> v, arg |-> <<>>] : v \in Views}
  \cup {[op |-> "move_view", id |-> v, arg |-> <<to>>] : v \in Views, to \in 0..1}
  \cup {[op |-> "move_nested_view", id |-> v, arg |-> <<W>>] : v \in Views}
  \cup {[op |-> "duplicate", id |-> v, arg |-> <<>>] : v \in Views}

\* What each handler returns when load_full() gives None.
\*  create_view_with_params: the handler is looked up and builds the view;
\*    `if let Some(lock)` skips the insertion, and Ok((view, _)) is returned.
\*  move_view_to_trash, delete_trash, toggle_favorites: `if let Some(lock)`
\*    skips the body, and Ok(()) is returned.
\*  update_view: value is None, get_view_pb fails, so nothing is notified,
\*    and Ok(()) is returned.
\*  move_view, move_nested_view: get_view_pb comes first and fails with
\*    folder_not_init_error.
\*  duplicate_view: load_full().ok_or_else(record_not_found).
\* view is the id of the view returned to the caller, if any.
CallWithoutTree(c) ==
  CASE c.op = "create" ->
         IF ~HasHandler(c.arg[1]) THEN [res |-> UnknownLayout, calls |-> <<>>, view |-> None]
         ELSE LET made == <<[call |-> IF c.arg[2] THEN "create_view_with_view_data"
                                      ELSE "create_default_view",
                             id |-> c.id]>>
              IN IF c.arg[3] = 1 THEN [res |-> HandlerError, calls |-> made, view |-> None]
                 ELSE [res |-> Ok, calls |-> made, view |-> c.id]
    [] c.op \in {"trash", "delete", "toggle_favorite", "update_view"} ->
         [res |-> Ok, calls |-> <<>>, view |-> None]
    [] c.op \in {"move_view", "move_nested_view"} ->
         [res |-> FolderNotInit, calls |-> <<>>, view |-> None]
    [] c.op = "duplicate" -> [res |-> RecordNotFound, calls |-> <<>>, view |-> None]

\* One call made while the handle is absent; nothing is stored by it.
AbsentCall(c) ==
  LET out == CallWithoutTree(c)
  IN /\ ~Loaded
     /\ steps < MaxTreeOps
     /\ folder' = folder
     /\ before' = folder
     /\ last' = [op |-> c.op, u |-> Me, id |-> c.id, arg |-> c.arg, res |-> out.res,
                 notes |-> <<>>, calls |-> out.calls, ancestors |-> NoAncestors,
                 view |-> out.view]
     /\ steps' = steps + 1
     /\ UNCHANGED taskVars

\* store(new_tree) on initialization: the handle gets its first tree
Initialize(t) ==
  /\ ~Loaded
  /\ folder' = t
  /\ UNCHANGED <<last, steps, before, taskVars>>

InitAbsent ==
  /\ folder = Absent
  /\ last = [NoCall EXCEPT !.res = Ok] @@ [ancestors |-> NoAncestors]
  /\ steps = 0
  /\ TasksIdle
  /\ before = NoFolder

\* Calls before and after the first tree is stored.
NextAbsent ==
  \/ \E c \in AbsentCalls : AbsentCall(c)
  \/ \E t \in InitFolders : Initialize(t)
  \/ \E id \in Views : Loaded /\ TreeTrash(Me, id)
  \/ \E parent \in IDs, in \in CreateInputs : Loaded /\ TreeCreate(Me, parent, in)

SpecAbsent == InitAbsent /\ [][NextAbsent]_vars

\* the latest call was made while no tree was loaded
CalledWithoutTree == last.op # "none" /\ before = Absent

\* C34: a call that needs the tree and is made while no tree is loaded
\* (create_view, trash, move, update, toggle-favorite, permanent delete,
\* duplicate) ends in the not-initialized error: none reports success and none
\* returns a view as created.
C34_AbsentHandleFaults ==
  CalledWithoutTree =>
    /\ last.res = FolderNotInit
    /\ last.view = None

\* Without a tree no call puts anything behind the handle, and the calls that
\* fetch the view first (move_view, move_nested_view) end in the
\* not-initialized error.
AbsentMoveFaults ==
  CalledWithoutTree =>
    /\ (last.op \in {"move_view", "move_nested_view"} => last.res = FolderNotInit)
    /\ (steps > 0 /\ ~Loaded => before = Absent)

\* ------------------------------------------------- guards taken in a guard
\* The folder's lock as tokio's RwLock grants it: requests are served in the
\* order they were made, a write request waits for every guard to be gone, a
\* read request waits for the writer and for every request made before it,
\* so a read asked for after a waiting write waits behind that write.
\* rw.reads counts the read guards each task holds, rw.queue is the line of
\* requests not yet granted.

\* get_shared_view_section: the read guard taken at the top is alive to the
\* end; get_flatten_shared_pages, called under it, reads in get_all_views
\* (guard dropped at once) and takes the guard of get_shared_pages.
GetSharedViewSectionSteps == <<"read", "read", "drop", "read", "drop", "drop">>

\* the end of duplicate_view_with_parent_id: lock.read() for the
\* notification, then get_view_pb, which reads again, and the return
DuplicateEndSteps == <<"read", "notify", "read", "drop", "drop">>

\* get_view_pb on its own
GetViewPbSteps == <<"read", "drop">>

\* a writer: restore_trash
WriterSteps == <<"write", "drop">>

LockStepsOf(op) ==
  CASE op = "get_shared_view_section" -> GetSharedViewSectionSteps
    [] op = "duplicate" -> DuplicateEndSteps
    [] op = "get_view_pb" -> GetViewPbSteps
    [] op = "restore" -> WriterSteps
    [] OTHER -> <<>>

LockCalls == {"get_shared_view_section", "duplicate", "get_view_pb", "restore"}

LockLabel(p) == IF pc[p] = 0 THEN "idle" ELSE LockStepsOf(prog[p].op)[pc[p]]

\* the task has asked for the lock and has not been given it yet
Waiting(p) == \E i \in 1..Len(rw.queue) : rw.queue[i].task = p

HoldsGuard(p) == rw.writer = p \/ rw.reads[p] > 0

\* the step after this one; after the last step the call has returned
Advance(p) ==
  IF pc[p] = Len(LockStepsOf(prog[p].op))
  THEN pc' = [pc EXCEPT ![p] = 0] /\ ret' = [ret EXCEPT ![p] = Ok]
  ELSE pc' = [pc EXCEPT ![p] = @ + 1] /\ UNCHANGED ret

LockStart(p, op) ==
  /\ pc[p] = 0
  /\ started < MaxConcCalls
  /\ started' = started + 1
  /\ prog' = [prog EXCEPT ![p] = [op |-> op, id |-> None, arg |-> <<>>]]
  /\ pc' = [pc EXCEPT ![p] = 1]
  /\ ret' = [ret EXCEPT ![p] = "pending"]
  /\ UNCHANGED <<folder, last, steps, before, loc, rw>>

\* lock.read() / lock.write() is called: the request joins the line
Request(p) ==
  /\ LockLabel(p) \in {"read", "write"}
  /\ ~Waiting(p)
  /\ rw' = [rw EXCEPT !.queue = Append(@, [task |-> p, kind |-> LockLabel(p)])]
  /\ UNCHANGED <<folder, last, steps, before, loc, pc, prog, ret, started>>

\* the request at the head of the line is granted
Grant ==
  /\ rw.queue # <<>>
  /\ LET req == Head(rw.queue)
     IN /\ rw.writer = NoGuard
        /\ req.kind = "write" => \A q \in Procs : rw.reads[q] = 0
        /\ rw' = [writer |-> IF req.kind = "write" THEN req.task ELSE NoGuard,
                  reads |-> IF req.kind = "read"
                            THEN [rw.reads EXCEPT ![req.task] = @ + 1] ELSE rw.reads,
                  queue |-> Tail(rw.queue)]
        /\ pc' = [pc EXCEPT ![req.task] = @ + 1]
  /\ UNCHANGED <<folder, last, steps, before, loc, prog, ret, started>>

\* a guard goes out of scope: the write guard, or the read guard taken last
Drop(p) ==
  /\ LockLabel(p) = "drop"
  /\ rw' = IF rw.writer = p THEN [rw EXCEPT !.writer = NoGuard]
           ELSE [rw EXCEPT !.reads[p] = @ - 1]
  /\ Advance(p)
  /\ UNCHANGED <<folder, last, steps, before, loc, prog, started>>

\* notify_parent_view_did_change
LockNotify(p) ==
  /\ LockLabel(p) = "notify"
  /\ Advance(p)
  /\ UNCHANGED <<folder, last, steps, before, loc, prog, started, rw>>

InitLock ==
  /\ folder = FolderOf(MixedChildren)
  /\ last = NoCall
  /\ steps = 0
  /\ pc = [p \in Procs |-> 0]
  /\ prog = [p \in Procs |-> NoProg]
  /\ loc = [p \in Procs |-> NoLoc]
  /\ rw = [writer |-> NoGuard, reads |-> [p \in Procs |-> 0], queue |-> <<>>]
  /\ ret = [p \in Procs |-> "none"]
  /\ started = 0
  /\ before = NoFolder

NextLock ==
  \/ \E p \in Procs, op \in LockCalls : LockStart(p, op)
  \/ \E p \in Procs : Request(p)
  \/ Grant
  \/ \E p \in Procs : Drop(p)
  \/ \E p \in Procs : LockNotify(p)

\* Every task that can take a step takes it in the end, and so does the lock.
SpecLock ==
  /\ InitLock
  /\ [][NextLock]_vars
  /\ \A p \in Procs : WF_vars(Request(p) \/ Drop(p) \/ LockNotify(p))
  /\ WF_vars(Grant)

\* C36: no call asks for the folder's lock while it holds a guard on it, and
\* so every call that was started returns: with readers and writers at the
\* same time no task waits for ever.
C36_NoLockInsideGuard ==
  /\ [](\A p \in Procs : Waiting(p) => ~HoldsGuard(p))
  /\ \A p \in Procs : (pc[p] # 0) ~> (pc[p] = 0)

\* a task waits for a read behind a write request that waits for the guard
\* the same task holds: neither request is ever granted
Deadlocked ==
  \E p, q \in Procs :
    /\ p # q
    /\ rw.reads[p] > 0
    /\ Len(rw.queue) = 2
    /\ rw.queue[1] = [task |-> q, kind |-> "write"]
    /\ rw.queue[2] = [task |-> p, kind |-> "read"]

\* The calls that hold no guard when they ask for the lock always return.
PlainCallsReturn ==
  \A p \in Procs :
    (pc[p] # 0 /\ prog[p].op \in {"get_view_pb", "restore"}
       /\ \A q \in Procs : ~(HoldsGuard(q) /\ Waiting(q)))
      ~> (pc[p] = 0 \/ \E q \in Procs : HoldsGuard(q) /\ Waiting(q))

\* --------------------------------------------------------- download_model
\* local_ai/request.rs.  In SpecDownload folder is the directory model_path:
\* part is the content of model_filename.part, final the content of
\* model_filename, each NoFile when there is no such file; before is the
\* directory as the latest call found it.

\* Number of chunks of the longest response body.
MaxChunks == 2

\* Number of download_model calls in one behaviour.
MaxDownloads == 2

\* a name with no file behind it, and a file with its content
NoFile == [exists |-> FALSE, data |-> <<>>]

File(data) == [exists |-> TRUE, data |-> data]

Canceled == "Download canceled"

Sha256Mismatch == "Sha256 mismatch"

IoError == "IoError"

RequestError == "RequestError"

\* Sha256 of a content, taken as free of collisions
Sha256(data) == [kind |-> "digest", data |-> data]

\* a response without SHA256 header
NoHeader == [kind |-> "none", data |-> <<>>]

\* a header value that is no base64 text
NotBase64 == [kind |-> "not base64", data |-> <<>>]

\* the SHA256 header as download_model reads it: the decoded bytes, or None
\* when there is no such header or its value does not decode
DecodeHeader(value) == IF value.kind = "digest" THEN value ELSE NoHeader

\* the body of a response, as the chunks it arrives in
Bodies == {<<>>, <<"x">>, <<"y">>, <<"x", "y">>, <<"y", "x">>}

\* the SHA256 header sent with a body: none, one that does not decode, the
\* digest of the body, the digest of something else
HeadersFor(body) == {NoHeader, NotBase64, Sha256(body), Sha256(<<"z">>)}

\* the places where the network or the file system can fail, k being the
\* chunk concerned
IoFailures ==
  {[at |-> a, k |-> 0] : a \in {"none", "request", "create", "remove", "seek", "rename"}}
  \cup {[at |-> a, k |-> k] : a \in {"chunk", "write"}, k \in 1..MaxChunks}

\* the loop over response.chunk(): the token is looked at when a chunk has
\* arrived, then the chunk is written.  cancel_at is the first chunk at whose
\* arrival the token is found cancelled (0: never).
RECURSIVE ChunkLoop(_, _, _, _, _)
ChunkLoop(fs, chunks, k, cancel_at, io) ==
  IF io.at = "chunk" /\ io.k = k THEN [fs |-> fs, res |-> IoError]
  ELSE IF k > Len(chunks) THEN [fs |-> fs, res |-> Ok]
  ELSE IF cancel_at # 0 /\ k >= cancel_at
  THEN IF io.at = "remove" THEN [fs |-> fs, res |-> IoError]
       ELSE [fs |-> [fs EXCEPT !.part = NoFile], res |-> Canceled]
  ELSE IF io.at = "write" /\ io.k = k THEN [fs |-> fs, res |-> IoError]
  ELSE ChunkLoop([fs EXCEPT !.part = File(Append(@.data, chunks[k]))], chunks, k + 1, cancel_at, io)

\* download_model: the request, File::create of the .part file, the chunk
\* loop, the digest of the .part file compared with the decoded header, and
\* the rename to the final name.
DownloadModel(fs, resp, cancel_at, io) ==
  IF io.at = "request" THEN [fs |-> fs, res |-> RequestError]
  ELSE IF io.at = "create" THEN [fs |-> fs, res |-> IoError]
  ELSE LET loop == ChunkLoop([fs EXCEPT !.part = File(<<>>)], resp.chunks, 1, cancel_at, io)
       IN IF loop.res # Ok THEN loop
          ELSE IF io.at = "seek" THEN [fs |-> loop.fs, res |-> IoError]
          ELSE LET header_sha256 == DecodeHeader(resp.sha256)
                   calculated_sha256 == Sha256(loop.fs.part.data)
               IN IF header_sha256 # NoHeader /\ calculated_sha256 # header_sha256
                  THEN IF io.at = "remove" THEN [fs |-> loop.fs, res |-> IoError]
                       ELSE [fs |-> [loop.fs EXCEPT !.part = NoFile], res |-> Sha256Mismatch]
                  ELSE IF io.at = "rename" THEN [fs |-> loop.fs, res |-> IoError]
                  ELSE [fs |-> [part |-> NoFile, final |-> loop.fs.part], res |-> Ok]

\* One download_model call.
Download(resp, cancel_at, io) ==
  LET out == DownloadModel(folder, resp, cancel_at, io)
  IN /\ steps < MaxDownloads
     /\ folder' = out.fs
     /\ before' = folder
     /\ last' = [op |-> "download_model", u |-> Me, id |-> None,
                 arg |-> <<resp, cancel_at, io>>, res |-> out.res, notes |-> <<>>,
                 calls |-> <<>>]
     /\ steps' = steps + 1
     /\ UNCHANGED taskVars

InitDownload ==
  /\ folder = [part |-> NoFile, final |-> NoFile]
  /\ last = NoCall
  /\ steps = 0
  /\ TasksIdle
  /\ before = NoFolder

NextDownload ==
  \E body \in Bodies, cancel_at \in 0..MaxChunks, io \in IoFailures :
    \E header \in HeadersFor(body) :
      Download([chunks |-> body, sha256 |-> header], cancel_at, io)

SpecDownload == InitDownload /\ [][NextDownload]_vars

\* C40: download_model leaves a file under the final name only when it
\* returns Ok, and it returns Ok only when every chunk of the body was
\* written and the digest was found equal to the SHA256 header or the
\* response had no SHA256 header; when it returns the cancel error or the
\* mismatch error the .part file is gone and no final file was made.
C40_FinalFileOnlyWhenVerified ==
  last.op = "download_model" =>
    LET resp == last.arg[1]
    IN /\ last.res # Ok => folder.final = before.final
       /\ last.res = Ok =>
            /\ folder.final = File(resp.chunks)
            /\ resp.sha256 = NoHeader \/ resp.sha256 = Sha256(folder.final.data)
       /\ last.res \in {Canceled, Sha256Mismatch} =>
            /\ folder.part = NoFile
            /\ folder.final = before.final

\* The same for the responses whose SHA256 header, if there is one, decodes.
DownloadWithReadableHeader ==
  (last.op = "download_model" /\ last.arg[1].sha256 # NotBase64) => C40_FinalFileOnlyWhenVerified

====
